---- MODULE Spec2Model ----
(***************************************************************************)
(* A model of the geometry engine of cell_type_constellations:             *)
(*   svg/hull_utils.py  pts_in_hull, evaluate_merger                       *)
(*   svg/hull.py        BareHull, merge_bare_hulls,                        *)
(*                      create_compound_bare_hull                          *)
(*   svg/fov.py         ConstellationPlot._render_centroid,                *)
(*                      _intersection_points                               *)
(*                                                                         *)
(* Coordinates are exact integers on a grid (the program uses floats); the *)
(* hulls fed to the model are chosen so that every segment intersection    *)
(* is itself a grid point, which MergeOnGrid and CompoundOnGrid check.     *)
(* Python's 0-based indices are 1-based here.                              *)
(***************************************************************************)
EXTENDS Integers, Sequences, FiniteSets, TLC

VARIABLES
    pc,              \* where the modelled call stands
    qh_start,        \* the (fixed, unspecified) vertex at which ConvexHull starts
    m_bare0,         \* merge_bare_hulls: argument bare0
    m_bare1,         \* merge_bare_hulls: argument bare1
    m_out,           \* merge_bare_hulls: what the call produced
    bare_hull_list,  \* create_compound_bare_hull: the working list
    c_arg,           \* create_compound_bare_hull: the caller's list
    c_ret,           \* create_compound_bare_hull: the returned compound hull
    c_prev,          \* the result of the previous call, when called again
    n_pass,          \* passes of the while loop the current call has made
    p_in,            \* pts_in_hull: arguments pts and hull
    p_out,           \* pts_in_hull: the mask returned
    g_in,            \* evaluate_merger: the two hulls and the data points
    g_out,           \* evaluate_merger: the hull returned, or None
    raw_hull_list,   \* merge_hulls: the working list of hulls
    final_pass,      \* merge_hulls: whether the loop is in final-pass mode
    median_dsq,      \* merge_hulls: the threshold on the squared distance
    hull_mergers,    \* merge_hulls: its dict mergers after the last pass
    been_merged,     \* merge_hulls: the hulls the last pass merged
    r_in,            \* rendering: the quantities a layout step reads
    r_out,           \* rendering: the quantities it computes
    d_in,            \* data pipeline: the arguments of the call
    d_procs,         \* data pipeline: the worker processes started
    d_files,         \* data pipeline: the files the call writes on its way
    d_dst,           \* data pipeline: what is on disk at dst_path
    d_out,           \* data pipeline: what the call produced, or raised
    process_list,    \* write_out_svg_cache: the list of its worker processes
    heap,            \* Python objects: the hulls and the lists that exist
    refs             \* Python objects: what the names of a call refer to

mergeVars    == <<m_bare0, m_bare1, m_out>>
compoundVars == <<bare_hull_list, c_arg, c_ret, c_prev, n_pass>>
ptsVars      == <<p_in, p_out>>
gateVars     == <<g_in, g_out, raw_hull_list, final_pass, median_dsq,
                 hull_mergers, been_merged>>
renderVars   == <<r_in, r_out>>
dataVars     == <<d_in, d_procs, d_files, d_dst, d_out, process_list>>
objVars      == <<heap, refs>>

vars == <<pc, qh_start, mergeVars, compoundVars, ptsVars, gateVars, renderVars,
         dataVars, objVars>>

(***************************************************************************)
(* Small helpers (numpy idioms)                                            *)
(***************************************************************************)

\* np.sign
sign(n) == IF n > 0 THEN 1 ELSE IF n < 0 THEN -1 ELSE 0

\* abs
Abs(n) == IF n < 0 THEN -n ELSE n

\* a - b for two points
Minus(a, b) == <<a[1] - b[1], a[2] - b[2]>>

\* ((a-b)**2).sum()
DistSq(a, b) == (a[1] - b[1]) * (a[1] - b[1]) + (a[2] - b[2]) * (a[2] - b[2])

\* the 2D cross product vec0.x*vec1.y - vec0.y*vec1.x
\* (utils/geometry.py cross_product_2d_bulk, one entry of the bulk result)
cross_product_2d(vec0, vec1) == vec0[1] * vec1[2] - vec0[2] * vec1[1]

\* arr[mask] : the entries of arr at which mask is TRUE, in order
RECURSIVE Compress(_, _)
Compress(arr, mask) ==
    IF Len(arr) = 0 THEN <<>>
    ELSE IF Head(mask) THEN <<Head(arr)>> \o Compress(Tail(arr), Tail(mask))
         ELSE Compress(Tail(arr), Tail(mask))

\* np.where(mask)[0]
Where(mask) == Compress([k \in 1..Len(mask) |-> k], mask)

\* mask.sum()
CountTrue(mask) == Cardinality({k \in 1..Len(mask) : mask[k]})

\* mask.all()
AllTrue(mask) == \A k \in 1..Len(mask) : mask[k]

\* the cyclic successor of index ii in 1..n
NextIdx(ii, n) == IF ii + 1 > n THEN 1 ELSE ii + 1

\* seq rotated left by k places
Rotate(seq, k) ==
    LET n == Len(seq)
    IN  IF n = 0 THEN seq
        ELSE [j \in 1..n |-> seq[((j - 1 + k) % n) + 1]]

(***************************************************************************)
(* BareHull: an ordered boundary; vertices are all the points, in order    *)
(***************************************************************************)
BareHull(points) ==
    [points   |-> points,
     vertices |-> [k \in 1..Len(points) |-> k]]

\* BareHull._set_segments: i_segments, the pairs [ii, ii+1] and [n-1, 0]
i_segments(hull) ==
    [k \in 1..Len(hull.points) |-> <<k, NextIdx(k, Len(hull.points))>>]

\* BareHull.segments
segments(hull) ==
    [k \in 1..Len(hull.points) |->
        <<hull.points[k], hull.points[NextIdx(k, Len(hull.points))]>>]

(***************************************************************************)
(* scipy.spatial.ConvexHull in 2D: the extreme points of a point array, as *)
(* indices into it, in counter-clockwise order.  Which vertex comes first  *)
(* is not specified by the library: qh_start rotates the order.  Points    *)
(* that coincide are represented by the lowest index.                      *)
(***************************************************************************)
LexLess(a, b) == a[1] < b[1] \/ (a[1] = b[1] /\ a[2] < b[2])

LowestIdx(points, k) ==
    CHOOSE j \in 1..Len(points) :
        /\ points[j] = points[k]
        /\ \A i \in 1..Len(points) : points[i] = points[k] => j <= i

HullFirst(points) ==
    CHOOSE j \in 1..Len(points) :
        /\ j = LowestIdx(points, j)
        /\ \A i \in 1..Len(points) : ~LexLess(points[i], points[j])

\* the next extreme point counter-clockwise from points[cur]
HullNext(points, cur) ==
    CHOOSE j \in 1..Len(points) :
        /\ points[j] # points[cur]
        /\ j = LowestIdx(points, j)
        /\ \A i \in 1..Len(points) :
              LET c == cross_product_2d(Minus(points[j], points[cur]),
                                        Minus(points[i], points[cur]))
              IN  \/ c > 0
                  \/ /\ c = 0
                     /\ DistSq(points[i], points[cur])
                            <= DistSq(points[j], points[cur])

RECURSIVE HullMarch(_, _, _, _)
HullMarch(points, first, cur, acc) ==
    LET nxt == HullNext(points, cur)
    IN  IF nxt = first THEN acc
        ELSE HullMarch(points, first, nxt, Append(acc, nxt))

\* Qhull fails (QhullError) when the points do not span the plane
Degenerate(points) ==
    \A i, j, k \in 1..Len(points) :
        cross_product_2d(Minus(points[j], points[i]),
                         Minus(points[k], points[i])) = 0

ConvexHull(points) ==
    LET first == HullFirst(points)
        start == qh_start
    IN  [points   |-> points,
         vertices |-> Rotate(HullMarch(points, first, first, <<first>>), start)]

(***************************************************************************)
(* hull_utils.pts_in_hull                                                  *)
(***************************************************************************)
\* a loop body that marks position k of the whole batch, forgetting that sgn
\* only holds the points still in play
pts_in_hull_edge_unaligned(pts, hull, ii, st) ==
    LET n_vert  == Len(hull.vertices)
        src     == hull.points[hull.vertices[ii]]
        dst     == hull.points[hull.vertices[NextIdx(ii, n_vert)]]
        edge    == Minus(dst, src)
        sel     == Compress(pts, st.result)
        sgn     == [k \in 1..Len(sel) |->
                       sign(cross_product_2d(Minus(sel[k], src), edge))]
        old     == Compress(st.sgn_arr, st.result)
        invalid == {k \in 1..Len(sel) : old[k] # sgn[k]}
        result  == IF ii = 1 THEN st.result
                   ELSE [k \in 1..Len(pts) |-> st.result[k] /\ k \notin invalid]
    IN  [result  |-> result,
         sgn_arr |-> IF ii = 1 THEN sgn ELSE st.sgn_arr,
         stop    |-> CountTrue(result) = 0]

\* one pass of the loop body for edge ii; st = [result, sgn_arr, stop], with
\* sgn_arr = <<>> standing for "sgn_arr is None" while ii = 1
pts_in_hull_edge(pts, hull, ii, st) ==
    LET n_vert  == Len(hull.vertices)
        src     == hull.points[hull.vertices[ii]]
        dst     == hull.points[hull.vertices[NextIdx(ii, n_vert)]]
        edge    == Minus(dst, src)
        sel     == Compress(pts, st.result)
        sgn     == [k \in 1..Len(sel) |->
                       sign(cross_product_2d(Minus(sel[k], src), edge))]
        idx     == Where(st.result)
        old     == Compress(st.sgn_arr, st.result)
        invalid == {idx[k] : k \in {j \in 1..Len(sel) : old[j] # sgn[j]}}
        result  == IF ii = 1 THEN st.result
                   ELSE [k \in 1..Len(pts) |-> st.result[k] /\ k \notin invalid]
    IN  [result  |-> result,
         sgn_arr |-> IF ii = 1 THEN sgn ELSE st.sgn_arr,
         stop    |-> CountTrue(result) = 0]

RECURSIVE pts_in_hull_loop(_, _, _, _)
pts_in_hull_loop(pts, hull, ii, st) ==
    IF ii > Len(hull.vertices) \/ st.stop THEN st.result
    ELSE pts_in_hull_loop(pts, hull, ii + 1, pts_in_hull_edge(pts, hull, ii, st))

\* a test that takes a point to be inside when it is on one given side of
\* every edge
pts_in_hull_one_sided(pts, hull) ==
    [k \in 1..Len(pts) |->
        \A ii \in 1..Len(hull.vertices) :
            cross_product_2d(
                Minus(pts[k], hull.points[hull.vertices[ii]]),
                Minus(hull.points[hull.vertices[NextIdx(ii, Len(hull.vertices))]],
                      hull.points[hull.vertices[ii]])) < 0]

pts_in_hull(pts, hull) ==
    pts_in_hull_loop(pts, hull, 1,
        [result  |-> [k \in 1..Len(pts) |-> TRUE],
         sgn_arr |-> <<>>,
         stop    |-> FALSE])

(***************************************************************************)
(* utils/geometry.py find_intersection_pt: the point at which two closed   *)
(* segments meet, or None when they do not meet in a single point          *)
(* (parallel and collinear segments give None).  exact tells whether the   *)
(* point is a grid point.                                                  *)
(***************************************************************************)
\* [hit |-> FALSE] stands for None.  With t = tn/den along seg0 and
\* u = un/den along seg1 (den made positive), the segments meet when both
\* lie in [0, 1].
find_intersection_pt(seg0, seg1) ==
    LET r   == Minus(seg0[2], seg0[1])
        s   == Minus(seg1[2], seg1[1])
        qp  == Minus(seg1[1], seg0[1])
        d   == cross_product_2d(r, s)
        den == Abs(d)
        tn  == sign(d) * cross_product_2d(qp, s)
        un  == sign(d) * cross_product_2d(qp, r)
        no  == [hit |-> FALSE, pt |-> <<0, 0>>, exact |-> TRUE]
    IN  IF den = 0 THEN no
        ELSE IF 0 <= tn /\ tn <= den /\ 0 <= un /\ un <= den
             THEN [hit   |-> TRUE,
                   pt    |-> <<seg0[1][1] + (tn * r[1]) \div den,
                               seg0[1][2] + (tn * r[2]) \div den>>,
                   exact |-> (tn * r[1]) % den = 0 /\ (tn * r[2]) % den = 0]
             ELSE no

(***************************************************************************)
(* hull.merge_bare_hulls                                                   *)
(***************************************************************************)
\* lines 278-294: every (i0, i1) pair of segments in enumeration order; the
\* k-th intersection found gets arena index n_all + k
RECURSIVE find_all_intersections(_, _, _, _)
find_all_intersections(bare0, bare1, k, acc) ==
    LET n1 == Len(bare1.points)
        i0 == ((k - 1) \div n1) + 1
        i1 == ((k - 1) % n1) + 1
    IN  IF k > Len(bare0.points) * n1 THEN acc
        ELSE LET intersection ==
                     find_intersection_pt(segments(bare0)[i0], segments(bare1)[i1])
             IN  find_all_intersections(bare0, bare1, k + 1,
                     IF ~intersection.hit THEN acc
                     ELSE Append(acc, [i0 |-> i0, i1 |-> i1,
                                       pt |-> intersection.pt,
                                       exact |-> intersection.exact]))

\* np.argsort on the squared distances: the positions 1..Len(keys) ordered by
\* key, equal keys keeping their order
RECURSIVE argsort_insert(_, _, _)
argsort_insert(sorted, keys, k) ==
    IF Len(sorted) = 0 THEN <<k>>
    ELSE IF keys[Head(sorted)] <= keys[k]
         THEN <<Head(sorted)>> \o argsort_insert(Tail(sorted), keys, k)
         ELSE <<k>> \o sorted

RECURSIVE argsort_upto(_, _)
argsort_upto(keys, n) ==
    IF n = 0 THEN <<>>
    ELSE argsort_insert(argsort_upto(keys, n - 1), keys, n)

\* the positions ordered the wrong way round, largest key first
argsort_descending(keys) ==
    LET asc == argsort_upto(keys, Len(keys))
    IN  [k \in 1..Len(asc) |-> asc[Len(asc) + 1 - k]]

argsort(keys) == argsort_upto(keys, Len(keys))

\* the arena indices of the intersections on a segment in the order the
\* lookup holds them, without the argsort on the distances
intersection_idx_list_unsorted(ints, n_all, i_hull, i_seg, src_pt) ==
    LET on_seg  == [k \in 1..Len(ints) |->
                       IF i_hull = 0 THEN ints[k].i0 = i_seg
                       ELSE ints[k].i1 = i_seg]
        order   == Where(on_seg)
    IN  [k \in 1..Len(order) |-> n_all + order[k]]

\* lines 343-352: the arena indices of the intersections lying on segment
\* i_seg of hull i_hull, ordered by distance from the segment's start
intersection_idx_list(ints, n_all, i_hull, i_seg, src_pt) ==
    LET on_seg  == [k \in 1..Len(ints) |->
                       IF i_hull = 0 THEN ints[k].i0 = i_seg
                       ELSE ints[k].i1 = i_seg]
        order   == Where(on_seg)
        ddsq    == [k \in 1..Len(order) |-> DistSq(ints[order[k]].pt, src_pt)]
        sorted  == argsort(ddsq)
    IN  [k \in 1..Len(order) |-> n_all + order[sorted[k]]]

\* lines 357-360, 365-368: new_hull[src_idx] = dst_idx under the two asserts
add_link(st, src_idx, dst_idx) ==
    IF st.err THEN st
    ELSE IF src_idx \in DOMAIN st.new_hull \/ dst_idx \in st.dst_set
         THEN [st EXCEPT !.err = TRUE]
         ELSE [new_hull |-> (src_idx :> dst_idx) @@ st.new_hull,
               dst_set  |-> st.dst_set \cup {dst_idx},
               err      |-> FALSE]

RECURSIVE add_chain(_, _)
add_chain(st, chain) ==
    IF Len(chain) < 2 THEN st
    ELSE add_chain(add_link(st, chain[1], chain[2]), Tail(chain))

\* lines 339-368: the loop over src_hull.i_segments, from segment k on
RECURSIVE build_new_hull(_, _, _, _, _, _)
build_new_hull(src_hull, i_hull, hull_offset, ints, n_all, k) ==
    IF k = 0 THEN [new_hull |-> <<>>, dst_set |-> {}, err |-> FALSE]
    ELSE LET i_seg == i_segments(src_hull)[k]
             chain == <<hull_offset + i_seg[1]>>
                      \o intersection_idx_list(ints, n_all, i_hull, i_seg[1],
                                               src_hull.points[i_seg[1]])
                      \o <<hull_offset + i_seg[2]>>
         IN  add_chain(build_new_hull(src_hull, i_hull, hull_offset,
                                      ints, n_all, k - 1),
                       chain)

\* lines 330-370
new_bare_hulls(bare0, bare1, ints) ==
    LET n_all == Len(bare0.points) + Len(bare1.points)
    IN  <<build_new_hull(bare0, 0, 0, ints, n_all, Len(bare0.points)),
          build_new_hull(bare1, 1, Len(bare0.points), ints, n_all,
                         Len(bare1.points))>>

\* lines 320-323
all_points(bare0, bare1, ints) ==
    bare0.points \o bare1.points \o [k \in 1..Len(ints) |-> ints[k].pt]

\* a loop that keeps the last vertex of naive_hull, whichever boundary it
\* belongs to
starting_idx_unrestricted(bare0, naive_hull) ==
    naive_hull.vertices[Len(naive_hull.vertices)]

\* a loop that stops at the first vertex of naive_hull that belongs to bare0
starting_idx_first(bare0, naive_hull) ==
    LET cand == {k \in 1..Len(naive_hull.vertices) :
                    naive_hull.vertices[k] <= Len(bare0.points)}
    IN  IF cand = {} THEN 0
        ELSE naive_hull.vertices[CHOOSE k \in cand : \A j \in cand : k <= j]

\* lines 376-382: the loop keeps the last vertex of naive_hull that belongs
\* to bare0; 0 stands for "starting_idx is None"
starting_idx(bare0, naive_hull) ==
    LET cand == {k \in 1..Len(naive_hull.vertices) :
                    naive_hull.vertices[k] <= Len(bare0.points)}
    IN  IF cand = {} THEN 0
        ELSE naive_hull.vertices[CHOOSE k \in cand : \A j \in cand : j <= k]

\* a walk that appends next_pt before it compares it with the start
RECURSIVE walk_appends_first(_, _, _, _)
walk_appends_first(maps, current_hull, final_points, fuel) ==
    LET last  == final_points[Len(final_points)]
        other == 3 - current_hull
    IN  IF last \notin DOMAIN maps[current_hull]
        THEN [raised |-> "KeyError", final_points |-> final_points]
        ELSE LET next_pt == maps[current_hull][last]
             IN  IF next_pt = final_points[1]
                 THEN [raised |-> "",
                       final_points |-> Append(final_points, next_pt)]
                 ELSE IF fuel = 0
                 THEN [raised |-> "NoReturn", final_points |-> final_points]
                 ELSE walk_appends_first(maps,
                           IF next_pt \in DOMAIN maps[other]
                           THEN other ELSE current_hull,
                           Append(final_points, next_pt),
                           fuel - 1)

\* lines 384-394: the walk.  It is deterministic in (current_hull, last
\* point), so a walk longer than fuel = 2 * (arena size) never ends.
RECURSIVE walk(_, _, _, _)
walk(maps, current_hull, final_points, fuel) ==
    LET last  == final_points[Len(final_points)]
        other == 3 - current_hull
    IN  IF last \notin DOMAIN maps[current_hull]
        THEN [raised |-> "KeyError", final_points |-> final_points]
        ELSE LET next_pt == maps[current_hull][last]
             IN  IF next_pt = final_points[1]
                 THEN [raised |-> "", final_points |-> final_points]
                 ELSE IF fuel = 0
                 THEN [raised |-> "NoReturn", final_points |-> final_points]
                 ELSE walk(maps,
                           IF next_pt \in DOMAIN maps[other]
                           THEN other ELSE current_hull,
                           Append(final_points, next_pt),
                           fuel - 1)

\* the outcome of merge_bare_hulls: raised = "" and the returned list, or
\* the exception raised ("NoReturn": the call never returns)
merge_bare_hulls(bare0, bare1) ==
    LET ints            == find_all_intersections(bare0, bare1, 1, <<>>)
        n_intersections == Len(ints)
        exact           == \A k \in 1..Len(ints) : ints[k].exact
        returns(list)   == [raised |-> "", hulls |-> list,
                            n_intersections |-> n_intersections,
                            exact |-> exact]
        raises(what)    == [raised |-> what, hulls |-> <<>>,
                            n_intersections |-> n_intersections,
                            exact |-> exact]
    IN  IF Degenerate(bare0.points) \/ Degenerate(bare1.points)
        THEN raises("QhullError")   \* lines 273-274
        ELSE IF n_intersections = 0 \/ n_intersections % 2 = 1
        THEN IF AllTrue(pts_in_hull(bare1.points, ConvexHull(bare0.points)))
             THEN returns(<<bare0>>)
             ELSE IF AllTrue(pts_in_hull(bare0.points, ConvexHull(bare1.points)))
             THEN returns(<<bare1>>)
             ELSE returns(<<bare0, bare1>>)
        ELSE LET arena == all_points(bare0, bare1, ints)
                 built == new_bare_hulls(bare0, bare1, ints)
                 maps  == <<built[1].new_hull, built[2].new_hull>>
                 start == starting_idx(bare0, ConvexHull(arena))
             IN  IF built[1].err \/ built[2].err \/ start = 0
                 THEN raises("AssertionError")
                 ELSE LET w == walk(maps, 1, <<start>>, 2 * Len(arena))
                      IN  IF w.raised # "" THEN raises(w.raised)
                          ELSE returns(<<BareHull(
                                   [k \in 1..Len(w.final_points) |->
                                       arena[w.final_points[k]]])>>)

(***************************************************************************)
(* Input hulls.  The unit of the grid is a quarter of the unit square of   *)
(* the documentation's example.                                            *)
(***************************************************************************)
Rect(x0, y0, x1, y1) == BareHull(<< <<x0, y0>>, <<x1, y0>>, <<x1, y1>>, <<x0, y1>> >>)

SqA    == Rect(0, 0, 4, 4)
SqB    == Rect(2, 2, 6, 6)
Inner  == Rect(1, 1, 3, 3)
Far    == Rect(14, 14, 18, 18)
HBar   == Rect(0, 0, 12, 4)
VBar   == Rect(2, 2, 6, 12)
Wide   == Rect(1, 7, 11, 9)
Notch  == Rect(7, 5, 9, 7)
Cross  == Rect(5, 6, 8, 8)
Side   == Rect(4, 0, 8, 4)
Tri    == BareHull(<< <<5, 10>>, <<11, 10>>, <<5, 14>> >>)
TriOdd == BareHull(<< <<4, 4>>, <<8, 4>>, <<8, 8>> >>)
TriUp  == BareHull(<< <<20, 4>>, <<32, 4>>, <<26, 16>> >>)
TriDn  == BareHull(<< <<20, 12>>, <<26, 0>>, <<32, 12>> >>)
\* the boundary merge_bare_hulls(HBar, VBar) returns
LShape == BareHull(<< <<0, 0>>, <<12, 0>>, <<12, 4>>, <<6, 4>>,
                      <<6, 12>>, <<2, 12>>, <<2, 4>>, <<0, 4>> >>)

MergeInputs == {SqA, SqB, Inner, Far, HBar, VBar, Wide, Notch, Cross, Side,
                Tri, TriOdd, TriUp, TriDn, LShape}

QhStarts == {0, 1, 2}

NoMerge == [raised |-> "", hulls |-> <<>>, n_intersections |-> 0, exact |-> TRUE]

(***************************************************************************)
(* Specification SpecMerge: one call of merge_bare_hulls(bare0, bare1)     *)
(***************************************************************************)
\* the variables of the calls a specification does not make
IdleMerge    == m_bare0 = <<>> /\ m_bare1 = <<>> /\ m_out = <<>>
IdleCompound == /\ bare_hull_list = <<>> /\ c_arg = <<>> /\ c_ret = <<>>
                /\ c_prev = <<>> /\ n_pass = 0
IdlePts      == p_in = <<>> /\ p_out = <<>>
IdleHulls    == /\ raw_hull_list = <<>> /\ final_pass = FALSE
                /\ median_dsq = 0 /\ hull_mergers = <<>>
                /\ been_merged = {}
IdleGate     == g_in = <<>> /\ g_out = <<>> /\ IdleHulls
IdleRender   == r_in = <<>> /\ r_out = <<>>
IdleData     == /\ d_in = <<>> /\ d_procs = <<>> /\ d_files = <<>>
                /\ d_dst = <<>> /\ d_out = <<>> /\ process_list = <<>>
IdleObj      == heap = <<>> /\ refs = <<>>

InitMerge ==
    /\ pc = "merge"
    /\ qh_start \in QhStarts
    /\ m_bare0 \in MergeInputs
    /\ m_bare1 \in MergeInputs \ {m_bare0}
    /\ m_out = NoMerge
    /\ IdleCompound /\ IdlePts /\ IdleGate /\ IdleRender /\ IdleData
    /\ IdleObj

CallMerge ==
    /\ pc = "merge"
    /\ m_out' = merge_bare_hulls(m_bare0, m_bare1)
    /\ pc' = "merged"
    /\ UNCHANGED <<qh_start, m_bare0, m_bare1>>
    /\ UNCHANGED <<compoundVars, ptsVars, gateVars, renderVars, dataVars, objVars>>

NextMerge == CallMerge

SpecMerge == InitMerge /\ [][NextMerge]_vars

(***************************************************************************)
(* Plane geometry used to state the properties                              *)
(***************************************************************************)
PointSet(hull) == {hull.points[k] : k \in 1..Len(hull.points)}

\* p lies on the closed segment from a to b
OnSegment(p, a, b) ==
    /\ cross_product_2d(Minus(p, a), Minus(b, a)) = 0
    /\ (p[1] - a[1]) * (p[1] - b[1]) <= 0
    /\ (p[2] - a[2]) * (p[2] - b[2]) <= 0

OnBoundary(p, hull) ==
    \E k \in 1..Len(hull.points) :
        OnSegment(p, segments(hull)[k][1], segments(hull)[k][2])

\* the edge from a to b crosses the horizontal ray from p towards +x
RayCrosses(p, a, b) ==
    /\ (a[2] > p[2]) # (b[2] > p[2])
    /\ IF b[2] > a[2]
       THEN (p[1] - a[1]) * (b[2] - a[2]) < (p[2] - a[2]) * (b[1] - a[1])
       ELSE (p[1] - a[1]) * (b[2] - a[2]) > (p[2] - a[2]) * (b[1] - a[1])

\* p is in the interior of the simple polygon hull (even-odd rule)
StrictlyInside(p, hull) ==
    /\ ~OnBoundary(p, hull)
    /\ Cardinality({k \in 1..Len(hull.points) :
           RayCrosses(p, segments(hull)[k][1], segments(hull)[k][2])}) % 2 = 1

AllStrictlyInside(inner, outer) ==
    \A p \in PointSet(inner) : StrictlyInside(p, outer)

\* every turn of the boundary is a strict left turn
IsConvexCCW(hull) ==
    LET n == Len(hull.points)
    IN  \A k \in 1..n :
            cross_product_2d(
                Minus(hull.points[NextIdx(k, n)], hull.points[k]),
                Minus(hull.points[NextIdx(NextIdx(k, n), n)],
                      hull.points[NextIdx(k, n)])) > 0

\* twice the signed area (shoelace formula)
RECURSIVE Area2From(_, _)
Area2From(hull, k) ==
    IF k = 0 THEN 0
    ELSE cross_product_2d(hull.points[k],
                          hull.points[NextIdx(k, Len(hull.points))])
         + Area2From(hull, k - 1)

Area2(hull) == Area2From(hull, Len(hull.points))

\* the segment intersections of two boundaries, as the model enumerates them
Ints(bare0, bare1) == find_all_intersections(bare0, bare1, 1, <<>>)

IntPoints(bare0, bare1) ==
    {Ints(bare0, bare1)[k].pt : k \in 1..Len(Ints(bare0, bare1))}

\* the boundaries cross properly: no crossing point is a vertex of either
\* boundary and no two crossings coincide
CrossProperly(bare0, bare1) ==
    /\ IntPoints(bare0, bare1) \cap (PointSet(bare0) \cup PointSet(bare1)) = {}
    /\ Cardinality(IntPoints(bare0, bare1)) = Len(Ints(bare0, bare1))

Merged == pc = "merged"

\* every intersection the merge computed is a grid point
MergeOnGrid == Merged => m_out.exact

\* ---- C1 ---------------------------------------------------------------
\* C1 (as claimed): with no segment intersection, merge_bare_hulls returns
\* [A] if every vertex of B is strictly inside A, [B] if every vertex of A
\* is strictly inside B, and [A, B] otherwise, also for non-convex A or B.
C1_Claim ==
    (Merged /\ m_out.n_intersections = 0) =>
        /\ m_out.raised = ""
        /\ m_out.hulls =
              IF AllStrictlyInside(m_bare1, m_bare0) THEN <<m_bare0>>
              ELSE IF AllStrictlyInside(m_bare0, m_bare1) THEN <<m_bare1>>
              ELSE <<m_bare0, m_bare1>>

\* ---- C2 ---------------------------------------------------------------
\* C2 (as claimed): with an odd number of segment intersections,
\* merge_bare_hulls returns exactly [A, B].
C2_Claim ==
    (Merged /\ m_out.n_intersections % 2 = 1) =>
        /\ m_out.raised = ""
        /\ m_out.hulls = <<m_bare0, m_bare1>>

\* ---- C3 ---------------------------------------------------------------
\* some rotation of seq equals target
IsRotationOf(seq, target) ==
    /\ Len(seq) = Len(target)
    /\ \E k \in 0..(Len(seq) - 1) : Rotate(seq, k) = target

\* every edge of hull runs along one segment of bare0 or of bare1
FollowsBoundaries(hull, bare0, bare1) ==
    \A k \in 1..Len(hull.points) :
        \E b \in {bare0, bare1} : \E j \in 1..Len(b.points) :
            /\ OnSegment(segments(hull)[k][1], segments(b)[j][1], segments(b)[j][2])
            /\ OnSegment(segments(hull)[k][2], segments(b)[j][1], segments(b)[j][2])

UnitSquaresUnion ==
    << <<0, 0>>, <<4, 0>>, <<4, 2>>, <<6, 2>>, <<6, 6>>, <<2, 6>>, <<2, 4>>, <<0, 4>> >>

ConvexCrossing ==
    /\ Merged
    /\ IsConvexCCW(m_bare0) /\ IsConvexCCW(m_bare1)
    /\ m_out.n_intersections > 0 /\ m_out.n_intersections % 2 = 0
    /\ CrossProperly(m_bare0, m_bare1)

\* C3: two convex counter-clockwise polygons whose boundaries cross at an
\* even, nonzero number of points merge into exactly one boundary; its
\* vertices are the crossing points and the vertices of each polygon that
\* are not strictly inside the other, each once, in boundary order; for
\* the two unit squares of the documentation it is the octagon of area
\* 1.75 (28 grid cells, Area2 = 56).
C3_ConvexUnion ==
    ConvexCrossing =>
        /\ m_out.raised = ""
        /\ Len(m_out.hulls) = 1
        /\ LET h == m_out.hulls[1]
           IN  /\ PointSet(h) =
                      IntPoints(m_bare0, m_bare1)
                      \cup {p \in PointSet(m_bare0) : ~StrictlyInside(p, m_bare1)}
                      \cup {p \in PointSet(m_bare1) : ~StrictlyInside(p, m_bare0)}
               /\ Cardinality(PointSet(h)) = Len(h.points)
               /\ FollowsBoundaries(h, m_bare0, m_bare1)
               /\ Area2(h) > 0
               /\ (m_bare0 = SqA /\ m_bare1 = SqB) =>
                      /\ IsRotationOf(h.points, UnitSquaresUnion)
                      /\ Area2(h) = 56

C3_Witness ==
    /\ ConvexCrossing
    /\ m_bare0 = SqA /\ m_bare1 = SqB
    /\ m_out.n_intersections = 2
    /\ Len(m_out.hulls) = 1

(***************************************************************************)
(* hull.create_compound_bare_hull                                          *)
(***************************************************************************)
\* lines 420-431: the (i0, i1) pairs with i0 < i1 in the order the two
\* nested loops visit them
RECURSIVE scan_order(_, _, _)
scan_order(n, i0, i1) ==
    IF i0 > n THEN <<>>
    ELSE IF i1 > n THEN scan_order(n, i0 + 1, i0 + 2)
    ELSE <<<<i0, i1>>>> \o scan_order(n, i0, i1 + 1)

\* the outcome of merge_bare_hulls for every pair of the scan, in order
mergers(list) ==
    LET order == scan_order(Len(list), 1, 2)
    IN  [k \in 1..Len(order) |->
            merge_bare_hulls(list[order[k][1]], list[order[k][2]])]

\* a scan that keeps going after a merger and so ends on the last one
first_stop_keeps_going(ms) ==
    LET stops == {k \in 1..Len(ms) :
                     ms[k].raised # "" \/ Len(ms[k].hulls) = 1}
    IN  IF stops = {} THEN 0
        ELSE CHOOSE k \in stops : \A j \in stops : k >= j

\* the scan stops at the first pair whose merger has one element, or whose
\* merge raises; 0 when the scan visits every pair without stopping
first_stop(ms) ==
    LET stops == {k \in 1..Len(ms) :
                     ms[k].raised # "" \/ Len(ms[k].hulls) = 1}
    IN  IF stops = {} THEN 0
        ELSE CHOOSE k \in stops : \A j \in stops : k <= j

\* a rebuild that forgets to drop the second merged input
new_hull_list_keeps_i1(list, pair, new_hull) ==
    LET keep == [ii \in 1..Len(list) |-> ii # pair[1]]
    IN  <<new_hull>> \o Compress(list, keep)

\* lines 432-438: new_hull first, then every hull that has not merged
new_hull_list(list, pair, new_hull) ==
    LET keep == [ii \in 1..Len(list) |-> ii # pair[1] /\ ii # pair[2]]
    IN  <<new_hull>> \o Compress(list, keep)

\* a loop that breaks after its first pass whatever the pass did
pass_result_breaks(list, ms, k) ==
    IF k = 0 THEN [list |-> list, to |-> "break"]
    ELSE IF ms[k].raised = "NoReturn" THEN [list |-> list, to |-> "hung"]
    ELSE IF ms[k].raised # "" THEN [list |-> list, to |-> "raised"]
    ELSE [list |-> new_hull_list(list, scan_order(Len(list), 1, 2)[k],
                                 ms[k].hulls[1]),
          to   |-> "break"]

\* lines 432-440: how an iteration ends once the scan has stopped at pair k
\* with mergers ms (k = 0: the scan found nothing to merge, the rebuilt list
\* has the length n0 of the old one)
pass_result(list, ms, k) ==
    IF k = 0 THEN [list |-> list, to |-> "break"]
    ELSE IF ms[k].raised = "NoReturn" THEN [list |-> list, to |-> "hung"]
    ELSE IF ms[k].raised # "" THEN [list |-> list, to |-> "raised"]
    ELSE LET new == new_hull_list(list, scan_order(Len(list), 1, 2)[k],
                                  ms[k].hulls[1])
         IN  [list |-> new,
              to   |-> IF Len(new) = Len(list) THEN "break" ELSE "loop"]

\* one iteration of the while loop (lines 417-440)
pass_scan(list, ms) == pass_result(list, ms, first_stop(ms))

pass_outcome(list) == pass_scan(list, mergers(list))

Pass ==
    /\ pc = "loop"
    /\ \E out \in {pass_outcome(bare_hull_list)} :
           /\ bare_hull_list' = out.list
           /\ pc' = out.to
    /\ n_pass' = n_pass + 1
    /\ UNCHANGED <<qh_start, c_arg, c_ret, c_prev>>
    /\ UNCHANGED <<mergeVars, ptsVars, gateVars, renderVars, dataVars, objVars>>

\* lines 442-450
Return ==
    /\ pc = "break"
    /\ c_ret' = IF Len(bare_hull_list) = 0
                THEN [none |-> TRUE, bare_hull_list |-> <<>>]
                ELSE [none |-> FALSE, bare_hull_list |-> bare_hull_list]
    /\ pc' = "returned"
    /\ UNCHANGED <<qh_start, bare_hull_list, c_arg, c_prev, n_pass>>
    /\ UNCHANGED <<mergeVars, ptsVars, gateVars, renderVars, dataVars, objVars>>

\* the caller passes the returned compound hull's bare_hull_list back in
CallAgain ==
    /\ pc = "returned"
    /\ ~c_ret.none
    /\ c_prev = <<>>
    /\ c_prev' = <<c_ret>>
    /\ c_arg' = c_ret.bare_hull_list
    /\ bare_hull_list' = c_ret.bare_hull_list
    /\ c_ret' = [none |-> TRUE, bare_hull_list |-> <<>>]
    /\ n_pass' = 0
    /\ pc' = "loop"
    /\ UNCHANGED <<qh_start, mergeVars, ptsVars, gateVars, renderVars,
                   dataVars, objVars>>

CompoundInputs == {SqA, SqB, HBar, VBar, Notch, Cross, TriOdd}

MaxHulls == 3

\* the lists of at most n distinct hulls of S
RECURSIVE HullLists(_, _)
HullLists(S, n) ==
    IF n = 0 THEN {<<>>}
    ELSE LET shorter == HullLists(S, n - 1)
         IN  shorter \cup
             {Append(l, h) : l \in {x \in shorter : Len(x) = n - 1},
                             h \in S} 

Distinct(l) == \A i, j \in 1..Len(l) : i # j => l[i] # l[j]

InitCompound ==
    /\ pc = "loop"
    /\ qh_start \in QhStarts
    /\ c_arg \in {l \in HullLists(CompoundInputs, MaxHulls) : Distinct(l)}
    /\ bare_hull_list = c_arg
    /\ c_ret = [none |-> TRUE, bare_hull_list |-> <<>>]
    /\ c_prev = <<>>
    /\ n_pass = 0
    /\ IdleMerge /\ IdlePts /\ IdleGate /\ IdleRender /\ IdleData
    /\ IdleObj

NextCompound == Pass \/ Return \/ CallAgain

SpecCompound == InitCompound /\ [][NextCompound]_vars

\* the loop keeps running: a call standing in the loop makes its next pass,
\* and a call that has left the loop returns
NextPass == pc = "loop" /\ n_pass' = n_pass + 1

SpecCompoundFair ==
    InitCompound /\ [][NextCompound]_vars
        /\ WF_n_pass(NextPass) /\ WF_vars(Return)

(***************************************************************************)
(* Properties of create_compound_bare_hull                                 *)
(***************************************************************************)
Returned == pc = "returned" /\ ~c_ret.none

\* every intersection a pass computes is a grid point
CompoundOnGrid ==
    pc = "loop" =>
        \A i, j \in 1..Len(bare_hull_list) :
            i < j => merge_bare_hulls(bare_hull_list[i],
                                      bare_hull_list[j]).exact

\* merge_bare_hulls(h0, h1) returns one boundary
Mergeable(h0, h1) ==
    \E m \in {merge_bare_hulls(h0, h1)} : m.raised = "" /\ Len(m.hulls) = 1

\* merge_bare_hulls(h0, h1) returns two boundaries
Unmergeable(h0, h1) ==
    \E m \in {merge_bare_hulls(h0, h1)} : m.raised = "" /\ Len(m.hulls) = 2

\* (a, b) comes before (i, j) in the order of the nested loops
ScannedBefore(a, b, i, j) == a < i \/ (a = i /\ b < j)

\* list with positions i and j taken out
Without(list, i, j) ==
    LET rest == {k \in 1..Len(list) : k # i /\ k # j}
        nth(n) == CHOOSE k \in rest : Cardinality({x \in rest : x < k}) = n - 1
    IN  [n \in 1..Cardinality(rest) |-> list[nth(n)]]

C4_FixedPointState ==
    Returned =>
        \A i, j \in 1..Len(c_ret.bare_hull_list) :
            i < j => Unmergeable(c_ret.bare_hull_list[i],
                                 c_ret.bare_hull_list[j])

C4_PassStep ==
    (pc = "loop" /\ pc' = "loop") =>
        \E i, j \in 1..Len(bare_hull_list) :
            /\ i < j
            /\ Mergeable(bare_hull_list[i], bare_hull_list[j])
            /\ \A a, b \in 1..Len(bare_hull_list) :
                   (a < b /\ ScannedBefore(a, b, i, j)) =>
                       Unmergeable(bare_hull_list[a], bare_hull_list[b])
            /\ bare_hull_list' =
                   <<merge_bare_hulls(bare_hull_list[i],
                                      bare_hull_list[j]).hulls[1]>>
                   \o Without(bare_hull_list, i, j)

\* C4: a returned compound hull is a fixed point -- merge_bare_hulls returns
\* two boundaries for every pair i < j of the result list -- and every pass
\* that went on looping merged exactly the first pair, in the (i, j) order
\* of the scan, whose merger has one element, took the two inputs out and put
\* the merged boundary in.
C4_FixedPoint == [](C4_FixedPointState) /\ [][C4_PassStep]_vars

C4_Witness ==
    /\ Returned
    /\ c_prev = <<>>
    /\ Len(c_arg) = 3
    /\ Len(c_ret.bare_hull_list) = 2
    /\ IsRotationOf(c_ret.bare_hull_list[1].points, UnitSquaresUnion)

C5_PassStep ==
    pc = "loop" =>
        /\ pc' = "loop" => Len(bare_hull_list') = Len(bare_hull_list) - 1
        /\ bare_hull_list' # bare_hull_list =>
               Len(bare_hull_list') = Len(bare_hull_list) - 1
        /\ (\A i, j \in 1..Len(bare_hull_list) :
                i < j => Unmergeable(bare_hull_list[i], bare_hull_list[j]))
               => (pc' = "break" /\ bare_hull_list' = bare_hull_list)

C5_NeverEmpty ==
    /\ c_arg # <<>> => bare_hull_list # <<>>
    /\ pc = "returned" => (c_ret.none <=> c_arg = <<>>)

\* C5: the call terminates (it returns, or a merge raises) for every input
\* list: a pass in which a merge succeeds shortens the working list by
\* exactly one, a pass with no merge ends the loop, the working list of a
\* non-empty input is never empty, and None is returned exactly for the
\* empty input.
C5_Terminates ==
    /\ [][C5_PassStep]_vars
    /\ [](C5_NeverEmpty)
    /\ (pc = "loop" ~> pc \in {"returned", "raised"})

C5_Witness ==
    /\ pc = "returned"
    /\ c_prev = <<>>
    /\ Len(c_arg) = 3
    /\ Len(c_ret.bare_hull_list) = 1

\* C6: calling create_compound_bare_hull again on the bare_hull_list of its
\* own result returns the same boundaries in the same order: the second call
\* neither raises nor hangs, merges nothing and drops nothing.
C6_Idempotent ==
    c_prev # <<>> =>
        /\ pc \notin {"raised", "hung"}
        /\ bare_hull_list = c_prev[1].bare_hull_list
        /\ pc = "returned" =>
               /\ ~c_ret.none
               /\ c_ret.bare_hull_list = c_prev[1].bare_hull_list

C6_Witness ==
    /\ Returned
    /\ c_prev # <<>>
    /\ Len(c_ret.bare_hull_list) = 2
    /\ \E k \in 1..2 : Len(c_ret.bare_hull_list[k].points) = 8

(***************************************************************************)
(* Specification SpecPts: one call of pts_in_hull(pts, hull)               *)
(***************************************************************************)
\* point clouds handed to ConvexHull: hull vertices mixed with interior
\* points and points on the hull's edges
CloudSquare   == <<<<2, 2>>, <<0, 0>>, <<4, 4>>, <<2, 0>>, <<4, 0>>, <<0, 4>>>>
CloudTriangle == <<<<6, 0>>, <<2, 1>>, <<0, 0>>, <<0, 6>>>>
CloudKite     == <<<<2, -2>>, <<6, 2>>, <<2, 2>>, <<2, 6>>, <<-2, 2>>>>

\* a square listed clockwise
SquareCW == BareHull(<<<<0, 0>>, <<0, 4>>, <<4, 4>>, <<4, 0>>>>)

PtsHulls ==
    {ConvexHull(CloudSquare), ConvexHull(CloudTriangle), ConvexHull(CloudKite),
     SqA, SquareCW, TriOdd, LShape}

\* the points a batch is drawn from: interior points, points on edges, on
\* vertices, on the lines through edges, and points outside
PtsPool ==
    {<<2, 2>>, <<1, 3>>, <<1, 1>>, <<4, 2>>, <<2, 0>>, <<0, 0>>, <<6, 0>>,
     <<3, 3>>, <<6, 6>>, <<-1, 2>>, <<2, 5>>}

MaxPts == 2

RECURSIVE Batches(_, _)
Batches(S, n) ==
    IF n = 0 THEN {<<>>}
    ELSE LET shorter == Batches(S, n - 1)
         IN  shorter \cup
             {Append(l, x) : l \in {y \in shorter : Len(y) = n - 1}, x \in S}

InitPts ==
    /\ pc = "pts"
    /\ qh_start \in QhStarts
    /\ p_in \in [pts : Batches(PtsPool, MaxPts), hull : PtsHulls]
    /\ p_out = <<>>
    /\ IdleMerge /\ IdleCompound /\ IdleGate /\ IdleRender /\ IdleData
    /\ IdleObj

CallPtsInHull ==
    /\ pc = "pts"
    /\ p_out' = pts_in_hull(p_in.pts, p_in.hull)
    /\ pc' = "pts_done"
    /\ UNCHANGED <<qh_start, p_in, mergeVars, compoundVars, gateVars, renderVars,
                   dataVars, objVars>>

NextPts == CallPtsInHull

SpecPts == InitPts /\ [][NextPts]_vars

(***************************************************************************)
(* Properties of pts_in_hull                                               *)
(***************************************************************************)
\* the cross product of (p - edge start) with (edge end - edge start) for
\* the edge leaving vertex ii of the polygon
EdgeCross(p, hull, ii) ==
    LET a == hull.points[hull.vertices[ii]]
        b == hull.points[hull.vertices[(ii % Len(hull.vertices)) + 1]]
    IN  (p[1] - a[1]) * (b[2] - a[2]) - (p[2] - a[2]) * (b[1] - a[1])

SameNonZeroSign(p, hull) ==
    \/ \A ii \in 1..Len(hull.vertices) : EdgeCross(p, hull, ii) > 0
    \/ \A ii \in 1..Len(hull.vertices) : EdgeCross(p, hull, ii) < 0

OnSomeEdge(p, hull) ==
    \E ii \in 1..Len(hull.vertices) :
        OnSegment(p, hull.points[hull.vertices[ii]],
                  hull.points[hull.vertices[(ii % Len(hull.vertices)) + 1]])

PtsDone == pc = "pts_done"

\* C7: pts_in_hull marks a point inside exactly when its cross product has
\* the same non-zero sign on every edge of the polygon; a point on an edge,
\* or on the line through the first edge, is not inside; and the mark of a
\* point is the one it gets in a batch of its own.
C7_SameSign ==
    PtsDone =>
        /\ Len(p_out) = Len(p_in.pts)
        /\ \A k \in 1..Len(p_in.pts) :
               /\ p_out[k] <=> SameNonZeroSign(p_in.pts[k], p_in.hull)
               /\ OnSomeEdge(p_in.pts[k], p_in.hull) => ~p_out[k]
               /\ EdgeCross(p_in.pts[k], p_in.hull, 1) = 0 => ~p_out[k]
               /\ p_out[k] = pts_in_hull(<<p_in.pts[k]>>, p_in.hull)[1]

\* a batch holding a point inside after a point on the line through the
\* first edge and off the polygon
C7_Witness ==
    /\ PtsDone
    /\ Len(p_in.pts) = 2
    /\ EdgeCross(p_in.pts[1], p_in.hull, 1) = 0
    /\ ~OnSomeEdge(p_in.pts[1], p_in.hull)
    /\ ~p_out[1]
    /\ p_out[2]

(***************************************************************************)
(* hull_utils.evaluate_merger                                              *)
(***************************************************************************)
\* np.logical_not, np.logical_and, np.logical_or on masks
logical_not(m)    == [k \in 1..Len(m) |-> ~m[k]]
logical_and(m, n) == [k \in 1..Len(m) |-> m[k] /\ n[k]]
logical_or(m, n)  == [k \in 1..Len(m) |-> m[k] \/ n[k]]

NoHull == [none |-> TRUE, points |-> <<>>, vertices |-> <<>>]

returns_hull(hull) ==
    [none |-> FALSE, points |-> hull.points, vertices |-> hull.vertices]

\* an acceptance test that takes fp_old for the sum of the two counts
accepts_sum(fp_new, fp_old, fp0, fp1, n_in) ==
    \/ 2 * (fp_new - (fp0 + fp1)) <= fp0 + fp1
    \/ 20 * (fp_new - (fp0 + fp1)) < n_in

\* the acceptance test of lines 239-245 on the counts.  The products
\* 0.5 * (fp0 + fp1) and 0.05 * n_in of the code are doubles: the first is
\* exact, and the second rounds to the integer n_in / 20 whenever that is an
\* integer, so that both comparisons agree with the exact ones below.
accepts(fp_new, fp_old, fp0, fp1, n_in) ==
    \/ 2 * (fp_new - fp_old) <= fp0 + fp1
    \/ 20 * (fp_new - fp_old) < n_in

evaluate_merger(hull0, hull1, test_pts, test_pt_validity) ==
    LET false_points == logical_not(test_pt_validity)
        new_hull     == ConvexHull(hull0.points \o hull1.points)
        in_new       == pts_in_hull(test_pts, new_hull)
        fp_new       == CountTrue(logical_and(in_new, false_points))
        in0          == pts_in_hull(test_pts, hull0)
        in1          == pts_in_hull(test_pts, hull1)
        fp0          == logical_and(in0, false_points)
        fp1          == logical_and(in1, false_points)
        fp_old       == CountTrue(logical_or(fp0, fp1))
    IN  IF accepts(fp_new, fp_old, CountTrue(fp0), CountTrue(fp1),
                   CountTrue(logical_or(in0, in1)))
        THEN returns_hull(new_hull)
        ELSE NoHull

(***************************************************************************)
(* Specification SpecGate: one call of evaluate_merger                     *)
(***************************************************************************)
\* the point clouds of three leaf hulls: two apart, and one across the gap
\* that overlaps both
CloudLeft   == <<<<0, 0>>, <<5, 0>>, <<5, 5>>, <<0, 5>>, <<2, 2>>>>
CloudRight  == <<<<8, 0>>, <<12, 0>>, <<12, 5>>, <<8, 5>>>>
CloudAcross == <<<<3, 1>>, <<9, 1>>, <<9, 4>>, <<6, 3>>, <<3, 4>>>>

GateHulls == {ConvexHull(CloudLeft), ConvexHull(CloudRight),
              ConvexHull(CloudAcross)}

\* test points: in the gap between the hulls, on an edge, and inside them
AllTestPts ==
    <<<<6, 2>>, <<7, 4>>, <<5, 2>>, <<1, 1>>, <<4, 2>>, <<9, 1>>, <<11, 4>>,
      <<6, 1>>, <<1, 2>>, <<1, 3>>, <<1, 4>>, <<2, 1>>, <<2, 2>>, <<2, 3>>,
      <<2, 4>>, <<3, 1>>, <<3, 2>>, <<3, 3>>, <<3, 4>>, <<4, 1>>, <<4, 3>>,
      <<4, 4>>, <<9, 2>>, <<9, 3>>, <<9, 4>>, <<10, 1>>, <<10, 2>>, <<10, 3>>,
      <<10, 4>>, <<11, 1>>, <<11, 2>>, <<11, 3>>>>

\* how many of AllTestPts a call is given
TestLens == {8, 24, 25}

\* the test points that may be invalid, and how many of them at most
InvalidPool == 1..8

MaxInvalid == 3

GateInputs ==
    {[hull0 |-> h0, hull1 |-> h1,
      test_pts |-> SubSeq(AllTestPts, 1, n),
      test_pt_validity |-> [k \in 1..n |-> k \notin bad]] :
         h0 \in GateHulls, h1 \in GateHulls, n \in TestLens,
         bad \in {b \in SUBSET InvalidPool : Cardinality(b) <= MaxInvalid}}

InitGate ==
    /\ pc = "gate"
    /\ qh_start \in QhStarts
    /\ g_in \in {g \in GateInputs : g.hull0 # g.hull1}
    /\ g_out = <<>>
    /\ IdleHulls
    /\ IdleMerge /\ IdleCompound /\ IdlePts /\ IdleRender /\ IdleData
    /\ IdleObj

CallEvaluateMerger ==
    /\ pc = "gate"
    /\ g_out' = evaluate_merger(g_in.hull0, g_in.hull1,
                                g_in.test_pts, g_in.test_pt_validity)
    /\ pc' = "gate_done"
    /\ UNCHANGED <<qh_start, g_in, raw_hull_list, final_pass, median_dsq,
                   hull_mergers, been_merged, mergeVars, compoundVars,
                   ptsVars, renderVars, dataVars, objVars>>

NextGate == CallEvaluateMerger

SpecGate == InitGate /\ [][NextGate]_vars

(***************************************************************************)
(* Properties of evaluate_merger                                           *)
(***************************************************************************)
GateDone == pc = "gate_done"

\* the test points, by position, that lie inside a hull
InsideIdx(hull) ==
    {k \in 1..Len(g_in.test_pts) : SameNonZeroSign(g_in.test_pts[k], hull)}

InvalidIdx == {k \in 1..Len(g_in.test_pts) : ~g_in.test_pt_validity[k]}

\* the polygon a hull's vertices trace out
Polygon(hull) == BareHull([k \in 1..Len(hull.vertices) |->
                              hull.points[hull.vertices[k]]])

\* hull is the convex hull of pts: a strictly convex counter-clockwise
\* polygon on points of pts with no point of pts outside it
IsConvexHullOf(hull, pts) ==
    /\ Len(hull.vertices) >= 3
    /\ IsConvexCCW(Polygon(hull))
    /\ \A k \in 1..Len(hull.vertices) :
           \E j \in 1..Len(pts) : pts[j] = hull.points[hull.vertices[k]]
    /\ \A j \in 1..Len(pts) :
           \A ii \in 1..Len(hull.vertices) : EdgeCross(pts[j], hull, ii) <= 0

\* p lies strictly inside the convex hull of pts: no line through p and a
\* point of pts has all of pts on one of its closed sides
InConvexHull(p, pts) ==
    ~ \E j \in 1..Len(pts) :
          /\ pts[j] # p
          /\ \/ \A i \in 1..Len(pts) :
                    cross_product_2d(Minus(pts[j], p), Minus(pts[i], p)) >= 0
             \/ \A i \in 1..Len(pts) :
                    cross_product_2d(Minus(pts[j], p), Minus(pts[i], p)) <= 0

Combined == g_in.hull0.points \o g_in.hull1.points

FpNew   == Cardinality({k \in InvalidIdx :
                           InConvexHull(g_in.test_pts[k], Combined)})
Fp0     == Cardinality(InvalidIdx \cap InsideIdx(g_in.hull0))
Fp1     == Cardinality(InvalidIdx \cap InsideIdx(g_in.hull1))
FpOld   == Cardinality(InvalidIdx \cap
                       (InsideIdx(g_in.hull0) \cup InsideIdx(g_in.hull1)))
NInside == Cardinality(InsideIdx(g_in.hull0) \cup InsideIdx(g_in.hull1))
DeltaFp == FpNew - FpOld

\* C8: evaluate_merger returns the convex hull of the two hulls' combined
\* points exactly when delta_fp <= 0.5 * (fp0 + fp1) or
\* delta_fp < 0.05 * |test points inside hull0 or hull1|, with fp0 and fp1
\* the invalid test points inside each hull and delta_fp the invalid test
\* points inside the combined hull less those inside hull0 or hull1; in
\* every other case it returns None.
C8_Criterion ==
    GateDone =>
        IF 2 * DeltaFp <= Fp0 + Fp1 \/ 20 * DeltaFp < NInside
        THEN ~g_out.none /\ IsConvexHullOf(g_out, Combined)
        ELSE g_out.none

\* a merger accepted by the 5% rule alone, its invalid test points counted
\* once where the two hulls overlap
C8_Witness ==
    /\ GateDone
    /\ ~g_out.none
    /\ 2 * DeltaFp > Fp0 + Fp1
    /\ 20 * DeltaFp < NInside

(***************************************************************************)
(* fov._intersection_points: the half-angles of a connection's ribbon      *)
(*                                                                         *)
(* Lengths are in sixteenths of a pixel, so that min_width = 0.25 px is 4. *)
(* An angle theta is kept as its sign and the exact value of sin(theta)^2, *)
(* a fraction <<num, den>>; the inputs are those whose angles are 0, 30,   *)
(* 45, 60 or 90 degrees, for which sin^2 is 0, 1/4, 1/2, 3/4 or 1.  The    *)
(* chord between src0 = src_pt + rot(src_mid, theta) and                   *)
(* src1 = src_pt + rot(src_mid, -theta) is 2 * pixel_r * |sin(theta)| long.*)
(***************************************************************************)
min_width == 4

\* twelve times n / (n_cells * max_connection_ratio), the fraction of a
\* right angle that theta is; ratio = <<num, den>>
twelfths(n, n_cells, ratio) == (12 * n * ratio[2]) \div (n_cells * ratio[1])

\* lines 206-207: 0.5 * pi * (n / (n_cells * max_connection_ratio))
theta_of(n, n_cells, ratio) ==
    LET t == twelfths(n, n_cells, ratio)
    IN  [sgn  |-> sign(n),
         sin2 |-> IF t = 0 THEN <<0, 4>>
                  ELSE IF t = 4 THEN <<1, 4>>
                  ELSE IF t = 6 THEN <<2, 4>>
                  ELSE IF t = 8 THEN <<3, 4>>
                  ELSE <<4, 4>>]

\* lines 209-214 (216-221 for the destination): the guard
\* min_width < 2 * pixel_r, the test actual_width < min_width on
\* actual_width = 2 * pixel_r * |sin(theta)| (both sides squared), and
\* theta = sign(theta) * asin(0.5 * min_width / pixel_r)
widen(theta, pixel_r) ==
    IF min_width < 2 * pixel_r
    THEN IF 4 * pixel_r * pixel_r * theta.sin2[1]
                < min_width * min_width * theta.sin2[2]
         THEN [sgn  |-> theta.sgn * 1,
               sin2 |-> IF theta.sgn = 0 THEN <<0, 4>>
                        ELSE <<min_width * min_width, 4 * pixel_r * pixel_r>>]
         ELSE theta
    ELSE theta

intersection_points(connection, max_connection_ratio) ==
    [src_theta |-> widen(theta_of(connection.n_src, connection.src.n_cells,
                                  max_connection_ratio),
                         connection.src.pixel_r),
     dst_theta |-> widen(theta_of(connection.n_dst, connection.dst.n_cells,
                                  max_connection_ratio),
                         connection.dst.pixel_r)]

(***************************************************************************)
(* Specification SpecRibbon: one call of _intersection_points              *)
(***************************************************************************)
\* pixel radii, in sixteenths of a pixel: 1/16, 1/8, 3/16, 1, 2 and 20 px
PixelRadii == {1, 2, 3, 16, 32, 320}

CellCounts == {6, 12}

MaxNeighbors == 6

\* the values of max_connection_ratio
Ratios == {<<1, 2>>, <<1, 1>>}

Centroids == [n_cells : CellCounts, pixel_r : PixelRadii]

\* lines 94-98: max_connection_ratio is no less than either end's ratio
RatioBounds(n, n_cells, ratio) == n * ratio[2] <= n_cells * ratio[1]

\* the angle is one with an exact sine
ExactAngle(n, n_cells, ratio) ==
    /\ (12 * n * ratio[2]) % (n_cells * ratio[1]) = 0
    /\ twelfths(n, n_cells, ratio) \in {0, 4, 6, 8, 12}

RibbonInputs ==
    {[connection |-> [src |-> s, dst |-> d, n_src |-> ns, n_dst |-> nd],
      max_connection_ratio |-> r] :
         s \in Centroids, d \in Centroids,
         ns \in 0..MaxNeighbors, nd \in 0..MaxNeighbors, r \in Ratios}

InitRibbon ==
    /\ pc = "ribbon"
    /\ qh_start = 0
    /\ r_in \in {i \in RibbonInputs :
                    /\ i.connection.n_src + i.connection.n_dst > 0
                    /\ RatioBounds(i.connection.n_src,
                                   i.connection.src.n_cells,
                                   i.max_connection_ratio)
                    /\ RatioBounds(i.connection.n_dst,
                                   i.connection.dst.n_cells,
                                   i.max_connection_ratio)
                    /\ ExactAngle(i.connection.n_src,
                                  i.connection.src.n_cells,
                                  i.max_connection_ratio)
                    /\ ExactAngle(i.connection.n_dst,
                                  i.connection.dst.n_cells,
                                  i.max_connection_ratio)}
    /\ r_out = <<>>
    /\ IdleMerge /\ IdleCompound /\ IdlePts /\ IdleGate /\ IdleData
    /\ IdleObj

CallIntersectionPoints ==
    /\ pc = "ribbon"
    /\ r_out' = intersection_points(r_in.connection, r_in.max_connection_ratio)
    /\ pc' = "ribbon_done"
    /\ UNCHANGED <<qh_start, r_in, mergeVars, compoundVars, ptsVars, gateVars,
                   dataVars, objVars>>

NextRibbon == CallIntersectionPoints

SpecRibbon == InitRibbon /\ [][NextRibbon]_vars

(***************************************************************************)
(* Properties of _intersection_points                                      *)
(***************************************************************************)
RibbonDone == pc = "ribbon_done"

\* the chord 2 * pixel_r * |sin(theta)| is at least 0.25 px (both squared)
WideEnough(theta, pixel_r) ==
    4 * pixel_r * pixel_r * theta.sin2[1] >= 16 * theta.sin2[2]

\* C9: for every connection -- n_src = 0, n_dst = 0 and radii at or below
\* 0.125 px included -- the chord width 2 * pixel_r * |sin(theta)| that
\* _intersection_points produces is at least 0.25 px at the source end and at
\* the destination end.
C9_Claim ==
    RibbonDone =>
        /\ WideEnough(r_out.src_theta, r_in.connection.src.pixel_r)
        /\ WideEnough(r_out.dst_theta, r_in.connection.dst.pixel_r)

(***************************************************************************)
(* fov.ConstellationPlot._render_elements and _render_centroid: the radius *)
(* of every centroid of a plot                                             *)
(*                                                                         *)
(* log2 is carried to LogScale binary-fraction steps: log2_floor(num, den) *)
(* is the integer part of LogScale * log2(num / den), exact at             *)
(* log2(1) = 0 and log2(2) = 1, and radii are in 1/LogScale px.            *)
(***************************************************************************)
LogScale == 8

RECURSIVE Pow(_, _)
Pow(b, e) == IF e = 0 THEN 1 ELSE b * Pow(b, e - 1)

\* np.log2(num / den) for 1 <= num / den <= 2
log2_floor(num, den) ==
    CHOOSE L \in 0..LogScale :
        /\ Pow(2, L) * Pow(den, LogScale) <= Pow(num, LogScale)
        /\ L < LogScale =>
               Pow(2, L + 1) * Pow(den, LogScale) > Pow(num, LogScale)

Max(a, b) == IF a >= b THEN a ELSE b

Min(a, b) == IF a <= b THEN a ELSE b

\* lines 75-79: the largest n_cells among the plot's centroids
max_n_cells_of(n_cells) ==
    CHOOSE m \in {n_cells[k] : k \in 1..Len(n_cells)} :
        \A k \in 1..Len(n_cells) : n_cells[k] <= m

\* a radius that takes the smaller of the two where line 124 takes the larger
render_centroid_min(n_cells, max_n_cells, min_radius, max_radius) ==
    Min(min_radius * LogScale,
        max_radius * log2_floor(max_n_cells + n_cells, max_n_cells))

\* lines 121-125: 1.0 + n_cells / max_n_cells is (max_n_cells + n_cells) /
\* max_n_cells
render_centroid(n_cells, max_n_cells, min_radius, max_radius) ==
    Max(min_radius * LogScale,
        max_radius * log2_floor(max_n_cells + n_cells, max_n_cells))

\* lines 75-88
render_elements(plot) ==
    [k \in 1..Len(plot.n_cells) |->
        render_centroid(plot.n_cells[k], max_n_cells_of(plot.n_cells),
                        plot.min_radius, plot.max_radius)]

(***************************************************************************)
(* Specification SpecRadius: the centroids of one plot are rendered        *)
(***************************************************************************)
MaxCells == 4

MaxCentroids == 3

\* min_radius and max_radius, in px
RadiusChoices == {0, 2, 3, 20}

RECURSIVE CellLists(_)
CellLists(n) ==
    IF n = 0 THEN {<<>>}
    ELSE LET shorter == CellLists(n - 1)
         IN  shorter \cup
             {Append(l, c) : l \in {x \in shorter : Len(x) = n - 1},
                             c \in 0..MaxCells}

\* a plot has a centroid, and a centroid that has cells
InitRadius ==
    /\ pc = "centroids"
    /\ qh_start = 0
    /\ r_in \in {plot \in [n_cells    : CellLists(MaxCentroids),
                           min_radius : RadiusChoices,
                           max_radius : RadiusChoices] :
                    \E k \in 1..Len(plot.n_cells) : plot.n_cells[k] > 0}
    /\ r_out = <<>>
    /\ IdleMerge /\ IdleCompound /\ IdlePts /\ IdleGate /\ IdleData
    /\ IdleObj

RenderElements ==
    /\ pc = "centroids"
    /\ r_out' = render_elements(r_in)
    /\ pc' = "centroids_done"
    /\ UNCHANGED <<qh_start, r_in, mergeVars, compoundVars, ptsVars, gateVars,
                   dataVars, objVars>>

NextRadius == RenderElements

SpecRadius == InitRadius /\ [][NextRadius]_vars

(***************************************************************************)
(* Properties of the node radius                                           *)
(***************************************************************************)
RadiusDone == pc = "centroids_done"

LargestCount == max_n_cells_of(r_in.n_cells)

\* r is max(min_radius, max_radius * log2(1 + n / max_n_cells)) to the
\* resolution of the model: r is the larger of min_radius and max_radius * l
\* with 2^l <= (1 + n / max_n_cells)^LogScale < 2^(l + 1)
IsRadiusOf(r, n) ==
    \E l \in 0..LogScale :
        /\ Pow(2, l) * Pow(LargestCount, LogScale)
               <= Pow(LargestCount + n, LogScale)
        /\ Pow(LargestCount + n, LogScale)
               < Pow(2, l + 1) * Pow(LargestCount, LogScale)
              \/ (l = LogScale /\ n = LargestCount)
        /\ r >= r_in.min_radius * LogScale
        /\ r >= r_in.max_radius * l
        /\ r = r_in.min_radius * LogScale \/ r = r_in.max_radius * l

true_divide(num, den) ==
    IF den # 0 THEN [val |-> "finite", num |-> num, den |-> den]
    ELSE IF num = 0 THEN [val |-> "nan", num |-> 0, den |-> 1]
    ELSE [val |-> "inf", num |-> 0, den |-> 1]

\* origin + q for a quotient q
add_to(origin, q) ==
    IF q.val = "finite"
    THEN [val |-> "finite", num |-> origin * q.den + q.num, den |-> q.den]
    ELSE q

\* lines 14-29
ConstellationPlot(height, max_radius) ==
    [height       |-> height,
     max_radius   |-> max_radius,
     pixel_origin |-> <<max_radius, max_radius>>,
     pixel_extent |-> <<height - 2 * max_radius, height - 2 * max_radius>>]

min_of(values) ==
    CHOOSE m \in {values[k] : k \in 1..Len(values)} :
        \A k \in 1..Len(values) : m <= values[k]

max_of(values) ==
    CHOOSE m \in {values[k] : k \in 1..Len(values)} :
        \A k \in 1..Len(values) : values[k] <= m

\* lines 61-73: the world bounds are those of the elements' coordinates
world_bounds(elements) ==
    LET x_values == [k \in 1..Len(elements) |-> elements[k][1]]
        y_values == [k \in 1..Len(elements) |-> elements[k][2]]
    IN  [world_origin |-> <<min_of(x_values), min_of(y_values)>>,
         world_extent |-> <<max_of(x_values) - min_of(x_values),
                            max_of(y_values) - min_of(y_values)>>]

\* lines 154-170
convert_to_pixel_coords(plot, world, x, y) ==
    [x |-> add_to(plot.pixel_origin[1],
                  true_divide(plot.pixel_extent[1] * (x - world.world_origin[1]),
                              world.world_extent[1])),
     y |-> add_to(plot.pixel_origin[2],
                  true_divide(plot.pixel_extent[2]
                                  * (world.world_origin[2]
                                         + world.world_extent[2] - y),
                              world.world_extent[2]))]

\* lines 58-88 and 127-132: the bounds are set once, then every centroid is
\* converted with them
render_pixel_coords(plot, elements) ==
    [world  |-> world_bounds(elements),
     pixels |-> [k \in 1..Len(elements) |->
                    convert_to_pixel_coords(plot, world_bounds(elements),
                                            elements[k][1], elements[k][2])]]

(***************************************************************************)
(* Specification SpecPixel: the centroids of one plot are placed on the    *)
(* canvas                                                                  *)
(***************************************************************************)
MaxElements == 3

MaxWorld == 2

\* height of the canvas and max_radius, in px; the canvas holds two margins
CanvasHeights == {40, 100}

CanvasRadii == {10, 20}

WorldPoints == (0..MaxWorld) \X (0..MaxWorld)

RECURSIVE ElementLists(_)
ElementLists(n) ==
    IF n = 0 THEN {<<>>}
    ELSE LET shorter == ElementLists(n - 1)
         IN  shorter \cup
             {Append(l, p) : l \in {x \in shorter : Len(x) = n - 1},
                             p \in WorldPoints}

\* render() calls _render_elements only for a plot that has an element
InitPixel ==
    /\ pc = "pixels"
    /\ qh_start = 0
    /\ r_in \in [height     : CanvasHeights,
                 max_radius : CanvasRadii,
                 elements   : ElementLists(MaxElements) \ {<<>>}]
    /\ r_out = <<>>
    /\ IdleMerge /\ IdleCompound /\ IdlePts /\ IdleGate /\ IdleData
    /\ IdleObj

RenderPixels ==
    /\ pc = "pixels"
    /\ r_out' = render_pixel_coords(
                    ConstellationPlot(r_in.height, r_in.max_radius),
                    r_in.elements)
    /\ pc' = "pixels_done"
    /\ UNCHANGED <<qh_start, r_in, mergeVars, compoundVars, ptsVars, gateVars,
                   dataVars, objVars>>

NextPixel == RenderPixels

SpecPixel == InitPixel /\ [][NextPixel]_vars

(***************************************************************************)
(* Properties of the pixel transform                                       *)
(***************************************************************************)
PixelDone == pc = "pixels_done"

\* the quotient q is the number v
IsValue(q, v) == q.val = "finite" /\ q.num = v * q.den

\* the quotient q lies in [lo, hi]
Within(q, lo, hi) ==
    /\ q.val = "finite"
    /\ q.den > 0 => (lo * q.den <= q.num /\ q.num <= hi * q.den)
    /\ q.den < 0 => (lo * q.den >= q.num /\ q.num >= hi * q.den)

\* C11: with the world bounds set from the plot's elements, x = xmin is
\* mapped to margin and x = xmax to canvas - margin, y = ymax to margin and
\* y = ymin to canvas - margin (margin = max_radius), and every element lands
\* inside [margin, canvas - margin] on both axes.
C11_PixelBox ==
    PixelDone =>
        LET margin == r_in.max_radius
            far    == r_in.height - r_in.max_radius
            xmin   == r_out.world.world_origin[1]
            ymin   == r_out.world.world_origin[2]
            xmax   == xmin + r_out.world.world_extent[1]
            ymax   == ymin + r_out.world.world_extent[2]
        IN  \A k \in 1..Len(r_in.elements) :
                LET el  == r_in.elements[k]
                    pix == r_out.pixels[k]
                IN  /\ el[1] = xmin => IsValue(pix.x, margin)
                    /\ el[1] = xmax => IsValue(pix.x, far)
                    /\ el[2] = ymax => IsValue(pix.y, margin)
                    /\ el[2] = ymin => IsValue(pix.y, far)
                    /\ Within(pix.x, margin, far)
                    /\ Within(pix.y, margin, far)

\* the same statement for plots whose elements differ in x and in y
PixelBoxProper ==
    (PixelDone /\ r_out.world.world_extent[1] > 0
               /\ r_out.world.world_extent[2] > 0) => C11_PixelBox

(***************************************************************************)
(* hull._path_from_hull, hull._get_ctrl_point and                          *)
(* rendering_utils.render_path_points: a boundary as SVG path commands     *)
(*                                                                         *)
(* A row is a pair of floats: a vertex (xy) or a control point, which is   *)
(* kept as the corner it was computed for (of = <<pre, center, post>>)     *)
(* together with whether both of its coordinates are finite.               *)
(***************************************************************************)
VertexRow(pt) == [finite |-> TRUE, xy |-> pt, of |-> <<>>]

NoRow == [finite |-> TRUE, xy |-> <<>>, of |-> <<>>]

dot(a, b) == a[1] * b[1] + a[2] * b[2]

\* lines 251-256: v0 and v1, the unit vectors from center to pre and to
\* post, point in opposite directions
antiparallel(pre, center, post) ==
    /\ cross_product_2d(Minus(pre, center), Minus(post, center)) = 0
    /\ dot(Minus(pre, center), Minus(post, center)) < 0

\* lines 258-259: the floats v0 + v1 are exactly zero when the two vectors
\* have the same length or lie along an axis (their components are then
\* 0, 1, -1 or each other's negatives)
sum_is_zero(pre, center, post) ==
    /\ antiparallel(pre, center, post)
    /\ \/ DistSq(pre, center) = DistSq(post, center)
       \/ pre[1] = center[1]
       \/ pre[2] = center[2]

\* lines 246-266: the control point is nan when a division by a zero norm
\* happened (lines 252, 255-256, 259); rounds_to_zero says whether the
\* rounded sum of two opposite unit vectors of other directions is zero
get_ctrl_point(pre, center, post, rounds_to_zero) ==
    [finite |-> /\ pre # center
                /\ post # center
                /\ ~sum_is_zero(pre, center, post)
                /\ ~(antiparallel(pre, center, post) /\ rounds_to_zero),
     xy     |-> <<>>,
     of     |-> <<pre, center, post>>]

\* a command that is a curve whatever its control points are
path_command_always_curve(src_ctrl, dst_ctrl, dst) ==
    [op |-> "C", c1 |-> src_ctrl, c2 |-> dst_ctrl, to |-> dst]

\* lines 228-238
path_command(src_ctrl, dst_ctrl, dst) ==
    IF src_ctrl.finite /\ dst_ctrl.finite
    THEN [op |-> "C", c1 |-> src_ctrl, c2 |-> dst_ctrl, to |-> dst]
    ELSE [op |-> "L", c1 |-> NoRow, c2 |-> NoRow, to |-> dst]

\* lines 205-227: the two control points of the edge leaving vertex i_src
edge_ctrl_points(hull, zero_sums, i_src) ==
    LET n     == Len(hull.vertices)
        pts   == hull.points
        v     == hull.vertices
        i_dst == IF i_src + 1 > n THEN 1 ELSE i_src + 1
        pre   == IF i_src = 1 THEN n ELSE i_src - 1
        post  == IF i_dst + 1 > n THEN 1 ELSE i_dst + 1
    IN  [src      |-> pts[v[i_src]],
         dst      |-> pts[v[i_dst]],
         src_ctrl |-> get_ctrl_point(pts[v[pre]], pts[v[i_src]], pts[v[i_dst]],
                                     i_src \in zero_sums),
         dst_ctrl |-> get_ctrl_point(pts[v[post]], pts[v[i_dst]], pts[v[i_src]],
                                     i_dst \in zero_sums)]

\* lines 195-243
path_from_hull(hull, zero_sums) ==
    <<[op |-> "M", c1 |-> NoRow, c2 |-> NoRow,
       to |-> hull.points[hull.vertices[1]]]>>
    \o [i_src \in 1..Len(hull.vertices) |->
           LET e == edge_ctrl_points(hull, zero_sums, i_src)
           IN  path_command(e.src_ctrl, e.dst_ctrl, e.dst)]

\* the stored path points of a boundary: for every edge the quadruple
\* start, ctrl, end, ctrl
path_points_of(hull, zero_sums) ==
    [r \in 1..(4 * Len(hull.vertices)) |->
        LET e == edge_ctrl_points(hull, zero_sums, ((r - 1) \div 4) + 1)
        IN  CASE (r - 1) % 4 = 0 -> VertexRow(e.src)
              [] (r - 1) % 4 = 1 -> e.src_ctrl
              [] (r - 1) % 4 = 2 -> VertexRow(e.dst)
              [] OTHER           -> e.dst_ctrl]

\* rendering_utils.py lines 231-262
RECURSIVE render_path_points_from(_, _)
render_path_points_from(path_points, i0) ==
    IF i0 > Len(path_points) THEN <<>>
    ELSE LET src      == path_points[i0]
             src_ctrl == path_points[i0 + 1]
             dst      == path_points[i0 + 2]
             dst_ctrl == path_points[i0 + 3]
             start    == IF i0 = 1
                         THEN <<[op |-> "M", c1 |-> NoRow, c2 |-> NoRow,
                                 to |-> src.xy]>>
                         ELSE <<>>
             update   == IF src_ctrl.finite /\ dst_ctrl.finite
                         THEN [op |-> "C", c1 |-> src_ctrl, c2 |-> dst_ctrl,
                               to |-> dst.xy]
                         ELSE [op |-> "L", c1 |-> NoRow, c2 |-> NoRow,
                               to |-> dst.xy]
         IN  start \o <<update>> \o render_path_points_from(path_points, i0 + 4)

render_path_points(path_points) == render_path_points_from(path_points, 1)

(***************************************************************************)
(* Specification SpecPath: one boundary is written as a path, from the     *)
(* hull or from its stored path points                                     *)
(***************************************************************************)
\* boundaries with a repeated point, with a vertex in the middle of a
\* straight side, with a spike, and with fewer than three vertices
Doubled     == BareHull(<< <<0, 0>>, <<4, 0>>, <<4, 0>>, <<4, 4>>, <<0, 4>> >>)
MidEdge     == BareHull(<< <<0, 0>>, <<2, 0>>, <<4, 0>>, <<4, 4>>, <<0, 4>> >>)
Slanted     == BareHull(<< <<0, 0>>, <<1, 2>>, <<3, 6>>, <<-4, 4>> >>)
SlantedEven == BareHull(<< <<0, 0>>, <<1, 2>>, <<2, 4>>, <<-4, 4>> >>)
Spike       == BareHull(<< <<0, 0>>, <<4, 0>>, <<2, 0>>, <<2, 4>> >>)
Pair        == BareHull(<< <<0, 0>>, <<4, 0>> >>)
Single      == BareHull(<< <<1, 1>> >>)

PathHulls ==
    MergeInputs
    \cup {ConvexHull(CloudSquare), ConvexHull(CloudTriangle),
          ConvexHull(CloudKite), SquareCW}
    \cup {Doubled, MidEdge, Slanted, SlantedEven, Spike, Pair, Single}

\* the corners at which the outcome of the rounding is open
OpenCorners(hull) ==
    {k \in 1..Len(hull.vertices) :
        LET n  == Len(hull.vertices)
            pr == hull.points[hull.vertices[IF k = 1 THEN n ELSE k - 1]]
            ce == hull.points[hull.vertices[k]]
            po == hull.points[hull.vertices[IF k = n THEN 1 ELSE k + 1]]
        IN  antiparallel(pr, ce, po) /\ ~sum_is_zero(pr, ce, po)}

InitPath ==
    /\ pc \in {"hull_path", "stored_path"}
    /\ qh_start \in QhStarts
    /\ \E hull \in PathHulls :
       \E zero_sums \in SUBSET OpenCorners(hull) :
           r_in = [hull        |-> hull,
                   zero_sums   |-> zero_sums,
                   path_points |-> path_points_of(hull, zero_sums)]
    /\ r_out = <<>>
    /\ IdleMerge /\ IdleCompound /\ IdlePts /\ IdleGate /\ IdleData
    /\ IdleObj

PathFromHull ==
    /\ pc = "hull_path"
    /\ r_out' = path_from_hull(r_in.hull, r_in.zero_sums)
    /\ pc' = "path_done"
    /\ UNCHANGED <<qh_start, r_in, mergeVars, compoundVars, ptsVars, gateVars,
                   dataVars, objVars>>

RenderPathPoints ==
    /\ pc = "stored_path"
    /\ r_out' = render_path_points(r_in.path_points)
    /\ pc' = "path_done"
    /\ UNCHANGED <<qh_start, r_in, mergeVars, compoundVars, ptsVars, gateVars,
                   dataVars, objVars>>

NextPath == PathFromHull \/ RenderPathPoints

SpecPath == InitPath /\ [][NextPath]_vars

(***************************************************************************)
(* Properties of the path commands                                         *)
(***************************************************************************)
PathDone == pc = "path_done"

\* the k-th vertex of the boundary, counted cyclically
PathVertex(k) ==
    LET n == Len(r_in.hull.vertices)
    IN  r_in.hull.points[r_in.hull.vertices[((k - 1) % n) + 1]]

\* both coordinates of the control point at vertex k, scaled towards vertex
\* j, are finite: no norm it is divided by is zero
CtrlFinite(k, j, other) ==
    /\ PathVertex(other) # PathVertex(k)
    /\ PathVertex(j) # PathVertex(k)
    /\ ~(/\ antiparallel(PathVertex(other), PathVertex(k), PathVertex(j))
         /\ \/ sum_is_zero(PathVertex(other), PathVertex(k), PathVertex(j))
            \/ (((k - 1) % Len(r_in.hull.vertices)) + 1) \in r_in.zero_sums)

\* C12: each edge gives exactly one command, ending at the edge's
\* destination vertex: a curve if both control points are finite, a straight
\* line otherwise; no non-finite control point is written, the end points
\* are the boundary's vertices in order, and the path closes on the first
\* vertex.
C12_PathCommands ==
    PathDone =>
        LET n == Len(r_in.hull.vertices)
        IN  /\ Len(r_out) = n + 1
            /\ r_out[1].op = "M" /\ r_out[1].to = PathVertex(1)
            /\ \A i \in 1..n :
                   LET cmd == r_out[i + 1]
                       n0  == Len(r_in.hull.vertices)
                   IN  /\ cmd.to = PathVertex(i + 1)
                       /\ cmd.op \in {"C", "L"}
                       /\ cmd.op = "C" <=>
                              /\ CtrlFinite(i, i + 1, i + n0 - 1)
                              /\ CtrlFinite(i + 1, i, i + 2)
                       /\ cmd.op = "C" => (cmd.c1.finite /\ cmd.c2.finite)
                       /\ cmd.op = "C" =>
                              /\ cmd.c1.of = <<PathVertex(i + n0 - 1),
                                               PathVertex(i), PathVertex(i + 1)>>
                              /\ cmd.c2.of = <<PathVertex(i + 2),
                                               PathVertex(i + 1), PathVertex(i)>>
            /\ r_out[n + 1].to = r_out[1].to

\* a boundary with a zero-length edge: the commands into, along and out of
\* the repeated point are straight lines, the others are curves, from the
\* hull and from its stored path points alike
C12_Witness ==
    /\ PathDone
    /\ r_in.hull = Doubled
    /\ r_out = render_path_points(r_in.path_points)
    /\ [i \in 1..6 |-> r_out[i].op] = <<"M", "L", "L", "L", "C", "C">>
    /\ r_out[6].to = <<0, 0>>

(***************************************************************************)
(* mixture_matrix_generator._create_mixture_matrices and                   *)
(* _create_sub_mixture_matrix, for one type_field                          *)
(*                                                                         *)
(* Cells are numbered from 1; the chunk the code calls [i0, i1) is the     *)
(* cells i0+1..i1.  A matrix is a sequence of rows.                        *)
(***************************************************************************)
\* what can be at a path: nothing, a file, a directory
Absent == [kind |-> "absent", by |-> "", data |-> <<>>]

File(by, data) == [kind |-> "file", by |-> by, data |-> data]

Directory == [kind |-> "dir", by |-> "", data |-> <<>>]

\* the chunk size cap of line 182
ChunkCap == 100000

\* scipy.spatial.cKDTree.query(x, k)[1] for the cell at data[i]: the k
\* nearest cells, nearest first; neighbors that do not exist are reported
\* as the index one past the last cell
RECURSIVE kd_nearest(_, _, _, _)
kd_nearest(data, i, k, found) ==
    IF k = 0 THEN found
    ELSE LET left == {j \in 1..Len(data) :
                         \A f \in 1..Len(found) : found[f] # j}
         IN  IF left = {}
             THEN kd_nearest(data, i, k - 1, Append(found, Len(data) + 1))
             ELSE LET nxt == CHOOSE j \in left :
                                 \A o \in left :
                                     \/ Abs(data[j] - data[i]) < Abs(data[o] - data[i])
                                     \/ /\ Abs(data[j] - data[i]) = Abs(data[o] - data[i])
                                        /\ j <= o
                  IN  kd_nearest(data, i, k - 1, Append(found, nxt))

kd_query(data, i, k) == kd_nearest(data, i, k, <<>>)

\* lines 181-182
chunk_size_of(n_cells, n_processors) ==
    Min(ChunkCap, n_cells \div (2 * n_processors))

\* a chunk end that reaches one cell into the next chunk
chunk_end_overlapping(n_cells, i0, chunk_size) ==
    Min(n_cells, i0 + chunk_size + 1)

\* line 186
chunk_end(n_cells, i0, chunk_size) == Min(n_cells, i0 + chunk_size)

\* lines 237-240: query() with k = 1 returns a one-dimensional array, which
\* neighbors[ii, :] cannot index; line 258: a neighbor that does not exist is
\* not a cell of the cell_set
sub_matrix_fails(args, i0, i1) ==
    \/ args.k_nn = 1
    \/ args.k_nn > Len(args.data)

\* lines 229-281: the counts of the cells i0+1..i1
create_sub_mixture_matrix(args, i0, i1) ==
    [t \in 1..args.n_types |->
        [u \in 1..args.n_types |->
            Cardinality(
                {<<ii, c>> \in ((i0 + 1)..i1) \X (1..args.k_nn) :
                    /\ args.types[ii] = t
                    /\ args.types[kd_query(args.data, ii, args.k_nn)[c]] = u})]]

ZeroMatrix(n) == [t \in 1..n |-> [u \in 1..n |-> 0]]

MatrixSum(a, b) ==
    [t \in 1..Len(a) |-> [u \in 1..Len(a) |-> a[t][u] + b[t][u]]]

\* lines 215-226: the temporary files are added up in the order of
\* tmp_path_list
RECURSIVE join_tmp_files(_, _, _)
join_tmp_files(files, k, n_types) ==
    IF k = 0 THEN ZeroMatrix(n_types)
    ELSE MatrixSum(join_tmp_files(files, k - 1, n_types), files[k])

\* winnow_process_list: the processes that have exited leave the list
winnow(procs) ==
    [k \in 1..Len(procs) |->
        IF procs[k].exit # "running"
        THEN [procs[k] EXCEPT !.listed = FALSE]
        ELSE procs[k]]

\* ... and it raises when one of them exited with a non-zero code
winnow_raises(procs) ==
    \E k \in 1..Len(procs) : procs[k].listed /\ procs[k].exit = "failed"

n_listed(procs) == Cardinality({k \in 1..Len(procs) : procs[k].listed})

(***************************************************************************)
(* Specification SpecMixture: one call of _create_mixture_matrices         *)
(***************************************************************************)
MaxKdCells == 4

\* the latent coordinates of the cells, on a line
KdDataChoices == {<<0, 1, 3, 4, 8, 9>>, <<0, 0, 5, 5, 1, 1>>}

NTypes == 2

KnnChoices == {1, 2, 3}

ProcessorChoices == {1, 2}

RECURSIVE TypeLists(_)
TypeLists(n) ==
    IF n = 0 THEN {<<>>}
    ELSE {Append(l, t) : l \in TypeLists(n - 1), t \in 1..NTypes}

InitMixture ==
    /\ pc = "spawn"
    /\ qh_start = 0
    /\ \E n \in 1..MaxKdCells, data \in KdDataChoices :
           d_in \in [data         : {SubSeq(data, 1, n)},
                     types        : TypeLists(n),
                     n_types      : {NTypes},
                     k_nn         : KnnChoices,
                     n_processors : ProcessorChoices]
    /\ d_procs = <<>>
    /\ d_files = <<>>
    /\ d_out = <<>>
    /\ process_list = <<>>
    /\ d_dst = Absent
    /\ IdleMerge /\ IdleCompound /\ IdlePts /\ IdleGate /\ IdleRender
    /\ IdleObj

\* line 183: range() with a step of 0
RangeRaises ==
    /\ pc = "spawn"
    /\ chunk_size_of(Len(d_in.data), d_in.n_processors) = 0
    /\ pc' = "raised"
    /\ d_out' = [raised |-> "ValueError", matrix |-> <<>>]
    /\ UNCHANGED <<qh_start, d_in, process_list, d_dst, d_procs, d_files>>
    /\ UNCHANGED <<mergeVars, compoundVars, ptsVars, gateVars, renderVars,
                   objVars>>

\* lines 183-204: one turn of the for loop starts the worker of the next
\* chunk and winnows the list when it is long enough
StartChunk ==
    /\ pc = "spawn"
    /\ chunk_size_of(Len(d_in.data), d_in.n_processors) > 0
    /\ LET n_cells    == Len(d_in.data)
           chunk_size == chunk_size_of(n_cells, d_in.n_processors)
           i0         == Len(d_procs) * chunk_size
           started    == Append(d_procs,
                             [i0     |-> i0,
                              i1     |-> chunk_end(n_cells, i0, chunk_size),
                              exit   |-> "running",
                              listed |-> TRUE])
           full       == n_listed(started) >= d_in.n_processors
       IN  /\ d_files' = Append(d_files, <<>>)
           /\ IF full /\ winnow_raises(started)
              THEN /\ d_procs' = started
                   /\ pc' = "raised"
                   /\ d_out' = [raised |-> "RuntimeError", matrix |-> <<>>]
              ELSE /\ d_procs' = IF full THEN winnow(started) ELSE started
                   /\ pc' = IF i0 + chunk_size < n_cells THEN "spawn" ELSE "wait"
                   /\ d_out' = d_out
    /\ UNCHANGED <<qh_start, d_in, process_list, d_dst>>
    /\ UNCHANGED <<mergeVars, compoundVars, ptsVars, gateVars, renderVars,
                   objVars>>

\* lines 229-281: a worker of _create_mixture_matrices counts the neighbors
\* of its chunk and writes its temporary file, or dies
WorkerExit ==
    /\ pc \in {"spawn", "wait", "raised"}
    /\ \E k \in 1..Len(d_procs) :
           /\ d_procs[k].exit = "running"
           /\ IF sub_matrix_fails(d_in, d_procs[k].i0, d_procs[k].i1)
              THEN /\ d_procs' = [d_procs EXCEPT ![k].exit = "failed"]
                   /\ d_files' = d_files
              ELSE /\ d_procs' = [d_procs EXCEPT ![k].exit = "done"]
                   /\ d_files' = [d_files EXCEPT ![k] =
                                     create_sub_mixture_matrix(
                                         d_in, d_procs[k].i0, d_procs[k].i1)]
    /\ UNCHANGED <<pc, qh_start, d_in, process_list, d_dst, d_out>>
    /\ UNCHANGED <<mergeVars, compoundVars, ptsVars, gateVars, renderVars,
                   objVars>>

\* lines 206-207: the list is winnowed until it is empty
WaitForWorkers ==
    /\ pc = "wait"
    /\ \E k \in 1..Len(d_procs) : d_procs[k].listed /\ d_procs[k].exit # "running"
    /\ IF winnow_raises(d_procs)
       THEN /\ pc' = "raised"
            /\ d_out' = [raised |-> "RuntimeError", matrix |-> <<>>]
            /\ d_procs' = d_procs
       ELSE /\ pc' = pc
            /\ d_out' = d_out
            /\ d_procs' = winnow(d_procs)
    /\ UNCHANGED <<qh_start, d_in, process_list, d_dst, d_files>>
    /\ UNCHANGED <<mergeVars, compoundVars, ptsVars, gateVars, renderVars,
                   objVars>>

\* lines 209-226
JoinTmpFiles ==
    /\ pc = "wait"
    /\ n_listed(d_procs) = 0
    /\ pc' = "joined"
    /\ d_out' = [raised |-> "",
                 matrix |-> join_tmp_files(d_files, Len(d_files), d_in.n_types)]
    /\ d_dst' = File("mixture_matrix",
                      join_tmp_files(d_files, Len(d_files), d_in.n_types))
    /\ UNCHANGED <<qh_start, d_in, process_list, d_procs, d_files>>
    /\ UNCHANGED <<mergeVars, compoundVars, ptsVars, gateVars, renderVars,
                   objVars>>

NextMixture ==
    RangeRaises \/ StartChunk \/ WorkerExit \/ WaitForWorkers \/ JoinTmpFiles

SpecMixture == InitMixture /\ [][NextMixture]_vars

(***************************************************************************)
(* Properties of the mixture matrix                                        *)
(***************************************************************************)
MixtureJoined == pc = "joined"

\* the number of cells of type t
NCellsOfType(t) ==
    Cardinality({i \in 1..Len(d_in.types) : d_in.types[i] = t})

RECURSIVE SumTo(_, _)
SumTo(row, k) == IF k = 0 THEN 0 ELSE SumTo(row, k - 1) + row[k]

\* C13: after the join every row of the mixture matrix sums to k_nn times
\* the number of cells of the row's type, so every entry M[t, u] satisfies
\* 0 <= M[t, u] <= k_nn * n_cells(t); every cell is in exactly one chunk.
C13_RowSums ==
    MixtureJoined =>
        /\ \A i \in 1..Len(d_in.data) :
               Cardinality({k \in 1..Len(d_procs) :
                               d_procs[k].i0 < i /\ i <= d_procs[k].i1}) = 1
        /\ Len(d_out.matrix) = d_in.n_types
        /\ \A t \in 1..d_in.n_types :
               /\ Len(d_out.matrix[t]) = d_in.n_types
               /\ SumTo(d_out.matrix[t], d_in.n_types)
                      = d_in.k_nn * NCellsOfType(t)
               /\ \A u \in 1..d_in.n_types :
                      /\ 0 <= d_out.matrix[t][u]
                      /\ d_out.matrix[t][u] <= d_in.k_nn * NCellsOfType(t)

\* four cells in four chunks, two neighbors each: the cells at 0 and 1 are
\* of type 1, those at 3 and 4 of type 2, and no cell has a neighbor of the
\* other type
C13_Witness ==
    /\ MixtureJoined
    /\ Len(d_procs) = 4
    /\ d_in.data = <<0, 1, 3, 4>>
    /\ d_in.types = <<1, 1, 2, 2>>
    /\ d_in.k_nn = 2
    /\ d_out.matrix = <<<<4, 0>>, <<0, 4>>>>

(***************************************************************************)
(* data_cache.get_hulls_for_leaf and the centroid pass of                  *)
(* data_cache.fix_centroids                                                *)
(*                                                                         *)
(* The taxonomy has two levels: the leaves and their parents.              *)
(***************************************************************************)
\* the default of the argument min_pts
min_pts == 10

NoHulls == [none |-> TRUE, hulls |-> <<>>]

\* pts[np.sort(list(subset)), :]
Take(pts, subset) ==
    Compress(pts, [k \in 1..Len(pts) |-> k \in subset])

\* a loop without the test on len(subset): every subset that has a convex
\* hull is kept
RECURSIVE sub_hulls_of_any_size(_, _)
sub_hulls_of_any_size(pts, subdivisions) ==
    IF Len(subdivisions) = 0 THEN <<>>
    ELSE LET subset == Head(subdivisions)
             rest   == sub_hulls_of_any_size(pts, Tail(subdivisions))
         IN  IF Degenerate(Take(pts, subset)) THEN rest
             ELSE <<Take(pts, subset)>> \o rest

\* lines 1304-1313: the subsets that are large enough and have a convex hull
RECURSIVE sub_hulls_of(_, _)
sub_hulls_of(pts, subdivisions) ==
    IF Len(subdivisions) = 0 THEN <<>>
    ELSE LET subset == Head(subdivisions)
             rest   == sub_hulls_of(pts, Tail(subdivisions))
         IN  IF Cardinality(subset) < min_pts THEN rest
             ELSE IF Degenerate(Take(pts, subset)) THEN rest
             ELSE <<Take(pts, subset)>> \o rest

\* a version without the try/except of lines 1297-1300
get_hulls_for_leaf_unguarded(pts, subdivisions) ==
    IF Len(sub_hulls_of(pts, subdivisions)) = 0
    THEN [none |-> FALSE, hulls |-> <<pts>>]
    ELSE [none |-> FALSE, hulls |-> sub_hulls_of(pts, subdivisions)]

\* lines 1261-1324; subdivisions is what iteratively_subdivide_points
\* returned
get_hulls_for_leaf(pts, subdivisions) ==
    IF Degenerate(pts) THEN NoHulls
    ELSE IF Len(sub_hulls_of(pts, subdivisions)) = 0
    THEN [none |-> FALSE, hulls |-> <<pts>>]
    ELSE [none |-> FALSE, hulls |-> sub_hulls_of(pts, subdivisions)]

RECURSIVE Concat(_)
Concat(seqs) == IF Len(seqs) = 0 THEN <<>> ELSE Head(seqs) \o Concat(Tail(seqs))

\* twice np.median(values)
median2(values) ==
    LET n      == Len(values)
        kth(k) == CHOOSE v \in {values[i] : i \in 1..n} :
                      /\ Cardinality({i \in 1..n : values[i] < v}) < k
                      /\ Cardinality({i \in 1..n : values[i] <= v}) >= k
    IN  IF n % 2 = 1 THEN 2 * kth((n + 1) \div 2)
        ELSE kth(n \div 2) + kth(n \div 2 + 1)

\* lines 1058-1062: the point nearest to the median point, the first of
\* them when several are
nearest_to_median(pts) ==
    LET mx      == median2([k \in 1..Len(pts) |-> pts[k][1]])
        my      == median2([k \in 1..Len(pts) |-> pts[k][2]])
        ddsq(k) == (mx - 2 * pts[k][1]) * (mx - 2 * pts[k][1])
                       + (my - 2 * pts[k][2]) * (my - 2 * pts[k][2])
        nn_idx  == CHOOSE k \in 1..Len(pts) :
                       /\ \A j \in 1..Len(pts) : ddsq(k) <= ddsq(j)
                       /\ \A j \in 1..(k - 1) : ddsq(j) > ddsq(k)
    IN  pts[nn_idx]

\* lines 1043-1064: the centroid of one node, given the leaves under it
node_centroid(children, leaf_hull_lookup, old_centroid) ==
    LET with_hulls == Compress(children,
                               [c \in 1..Len(children) |->
                                   ~leaf_hull_lookup[children[c]].none])
        pts == Concat([c \in 1..Len(with_hulls) |->
                          Concat(leaf_hull_lookup[with_hulls[c]].hulls)])
    IN  IF Len(pts) > 0 THEN nearest_to_median(pts) ELSE old_centroid

\* taxonomy_tree.as_leaves[level][node]
as_leaves(parent, level, node) ==
    IF level = 2 THEN <<node>>
    ELSE Compress([l \in 1..Len(parent) |-> l],
                  [l \in 1..Len(parent) |-> parent[l] = node])

\* taxonomy_tree.nodes_at_level(level)
nodes_at_level(parent, level) ==
    IF level = 2 THEN 1..Len(parent)
    ELSE {parent[l] : l \in 1..Len(parent)}

\* old_cache.centroid_from_label(level, label): a point of its own
old_centroid_of(level, node) == <<100 * level, node>>

\* lines 1034-1067
new_centroid_lookup(parent, leaf_hull_lookup) ==
    [level \in 1..2 |->
        [node \in nodes_at_level(parent, level) |->
            node_centroid(as_leaves(parent, level, node), leaf_hull_lookup,
                          old_centroid_of(level, node))]]

(***************************************************************************)
(* Specification SpecCentroids: the leaves' hulls are found, in any order, *)
(* and the centroids are fixed                                             *)
(***************************************************************************)
MaxLeaves == 3

\* ten points on a line and four points off it
Big == <<<<0, 0>>, <<1, 0>>, <<2, 0>>, <<3, 0>>, <<4, 0>>, <<5, 0>>, <<6, 0>>,
         <<7, 0>>, <<8, 0>>, <<9, 0>>, <<0, 3>>, <<3, 3>>, <<3, 5>>, <<0, 5>>>>

\* the cells of a leaf: one, two, three on a line, and clouds with a hull
LeafClouds ==
    {<<<<1, 1>>>>,
     <<<<0, 0>>, <<2, 2>>>>,
     <<<<0, 0>>, <<1, 1>>, <<3, 3>>>>,
     CloudTriangle,
     Big}

\* what iteratively_subdivide_points may return for a leaf: everything in
\* one subset, the line apart from the rest, ten points that span the plane
\* apart from the rest
Subdivisions(pts) ==
    IF Len(pts) < min_pts THEN {<<1..Len(pts)>>}
    ELSE {<<1..Len(pts)>>,
          <<1..10, 11..Len(pts)>>,
          <<(1..7) \cup (11..13), (8..10) \cup (14..Len(pts))>>}

\* the parent of every leaf
TreeShapes(n) ==
    {p \in [1..n -> 1..2] :
        /\ p[1] = 1
        /\ \A i \in 1..(n - 1) : p[i + 1] \in {p[i], p[i] + 1}}

Pending == [none |-> TRUE, hulls |-> <<"pending">>]

InitCentroids ==
    /\ pc = "leaf_hulls"
    /\ qh_start = 0
    /\ \E n \in 1..MaxLeaves :
           d_in \in [parent   : TreeShapes(n),
                     leaf_pts : [1..n -> LeafClouds]]
    /\ d_procs = <<>>
    /\ d_files = [l \in 1..Len(d_in.parent) |-> Pending]
    /\ d_out = <<>>
    /\ process_list = <<>>
    /\ d_dst = <<>>
    /\ IdleMerge /\ IdleCompound /\ IdlePts /\ IdleGate /\ IdleRender
    /\ IdleObj

\* lines 1238-1244 and 1201-1209: the hulls of one more leaf are found and
\* reach leaf_hull_lookup
HullsForLeaf ==
    /\ pc = "leaf_hulls"
    /\ \E leaf \in 1..Len(d_in.parent) :
           /\ d_files[leaf] = Pending
           /\ \E subdivisions \in Subdivisions(d_in.leaf_pts[leaf]) :
                  d_files' = [d_files EXCEPT ![leaf] =
                                 get_hulls_for_leaf(d_in.leaf_pts[leaf],
                                                    subdivisions)]
    /\ UNCHANGED <<pc, qh_start, d_in, process_list, d_dst, d_procs, d_out>>
    /\ UNCHANGED <<mergeVars, compoundVars, ptsVars, gateVars, renderVars,
                   objVars>>

\* lines 1034-1067
FixCentroids ==
    /\ pc = "leaf_hulls"
    /\ \A leaf \in 1..Len(d_in.parent) : d_files[leaf] # Pending
    /\ d_out' = new_centroid_lookup(d_in.parent, d_files)
    /\ pc' = "centroids_fixed"
    /\ UNCHANGED <<qh_start, d_in, process_list, d_dst, d_procs, d_files>>
    /\ UNCHANGED <<mergeVars, compoundVars, ptsVars, gateVars, renderVars,
                   objVars>>

NextCentroids == HullsForLeaf \/ FixCentroids

SpecCentroids == InitCentroids /\ [][NextCentroids]_vars

(***************************************************************************)
(* Properties of the centroid pass                                         *)
(***************************************************************************)
CentroidsFixed == pc = "centroids_fixed"

\* fewer than three points, or all points on one line
DegenerateLeaf(leaf) ==
    \/ Len(d_in.leaf_pts[leaf]) < 3
    \/ \A i, j, k \in 1..Len(d_in.leaf_pts[leaf]) :
           cross_product_2d(
               Minus(d_in.leaf_pts[leaf][j], d_in.leaf_pts[leaf][i]),
               Minus(d_in.leaf_pts[leaf][k], d_in.leaf_pts[leaf][i])) = 0

LeavesUnder(level, node) ==
    IF level = 2 THEN {node}
    ELSE {l \in 1..Len(d_in.parent) : d_in.parent[l] = node}

\* the points of the hulls found for the leaves under a node
HullPointsUnder(level, node) ==
    UNION {UNION {{d_files[l].hulls[h][k] : k \in 1..Len(d_files[l].hulls[h])} :
                     h \in 1..Len(d_files[l].hulls)} :
              l \in {x \in LeavesUnder(level, node) : ~d_files[x].none}}

\* C14: a degenerate leaf gets None and the other leaves are processed all
\* the same: every leaf has an entry, None exactly for the degenerate ones;
\* every node of every level gets a centroid, the previous one when none of
\* its leaves has a hull and otherwise one of the node's hull points.
C14_DegenerateLeaves ==
    /\ \A leaf \in 1..Len(d_files) :
           (pc \in {"leaf_hulls", "centroids_fixed"} /\ d_files[leaf] # Pending) =>
               /\ d_files[leaf].none <=> DegenerateLeaf(leaf)
               /\ ~d_files[leaf].none => Len(d_files[leaf].hulls) > 0
    /\ CentroidsFixed =>
           /\ \A leaf \in 1..Len(d_in.parent) : d_files[leaf] # Pending
           /\ \A level \in 1..2 :
                  /\ DOMAIN d_out[level]
                         = (IF level = 2 THEN 1..Len(d_in.parent)
                            ELSE {d_in.parent[l] : l \in 1..Len(d_in.parent)})
                  /\ \A node \in DOMAIN d_out[level] :
                         IF \A l \in LeavesUnder(level, node) : DegenerateLeaf(l)
                         THEN d_out[level][node] = old_centroid_of(level, node)
                         ELSE d_out[level][node] \in HullPointsUnder(level, node)

\* a parent with a one-point leaf, a collinear leaf and a leaf with a hull:
\* the two degenerate leaves keep their previous centroids and the parent
\* takes a point of the third leaf
C14_Witness ==
    /\ CentroidsFixed
    /\ d_in.parent = <<1, 1, 1>>
    /\ d_in.leaf_pts = <<<<<<1, 1>>>>, <<<<0, 0>>, <<1, 1>>, <<3, 3>>>>, CloudTriangle>>
    /\ d_files[1].none /\ d_files[2].none /\ ~d_files[3].none
    /\ d_out[2][1] = old_centroid_of(2, 1)
    /\ d_out[2][2] = old_centroid_of(2, 2)
    /\ d_out[1][1] \in {CloudTriangle[k] : k \in 1..Len(CloudTriangle)}
    /\ d_out[1][1] = d_out[2][3]

(***************************************************************************)
(* rendering_utils.connection_list_to_hdf5_single_level and                *)
(* connection_list_from_hdf5: the connections of one level in an HDF5 file *)
(*                                                                         *)
(* A label is the sequence of its bytes.                                   *)
(***************************************************************************)
\* np.array of byte strings: every entry is padded with NUL bytes to the
\* length of the longest one
RECURSIVE pad_to(_, _)
pad_to(bytes, width) ==
    IF Len(bytes) >= width THEN bytes ELSE pad_to(Append(bytes, 0), width)

longest(labels) ==
    IF Len(labels) = 0 THEN 0
    ELSE CHOOSE w \in {Len(labels[k]) : k \in 1..Len(labels)} :
             \A k \in 1..Len(labels) : Len(labels[k]) <= w

bytes_array(labels) ==
    [k \in 1..Len(labels) |-> pad_to(labels[k], longest(labels))]

\* an entry read from such an array loses its trailing NUL bytes
RECURSIVE strip_nuls(_)
strip_nuls(bytes) ==
    IF Len(bytes) > 0 /\ bytes[Len(bytes)] = 0
    THEN strip_nuls(SubSeq(bytes, 1, Len(bytes) - 1))
    ELSE bytes

\* np.vstack
vstack(arrays) == Concat(arrays)

\* lines 576-606: the arrays of the level; np.vstack raises on an empty list
connection_arrays(connection_list) ==
    LET n == Len(connection_list)
    IN  [src_label_list        |-> bytes_array([k \in 1..n |-> connection_list[k].src]),
         dst_label_list        |-> bytes_array([k \in 1..n |-> connection_list[k].dst]),
         k_nn_list             |-> [k \in 1..n |-> connection_list[k].k_nn],
         src_neighbor_list     |-> [k \in 1..n |-> connection_list[k].src_neighbors],
         dst_neighbor_list     |-> [k \in 1..n |-> connection_list[k].dst_neighbors],
         n_rendering_corners   |-> [k \in 1..n |->
                                       Len(connection_list[k].rendering_corners)],
         n_bezier_points       |-> [k \in 1..n |->
                                       Len(connection_list[k].bezier_control_points)],
         rendering_corners     |-> vstack([k \in 1..n |->
                                       connection_list[k].rendering_corners]),
         bezier_control_points |-> vstack([k \in 1..n |->
                                       connection_list[k].bezier_control_points])]

\* lines 668-700: the connections from index idx on, corner0 and bez0 being
\* the rows already handed out
RECURSIVE read_connections(_, _, _, _)
read_connections(data_lookup, idx, corner0, bez0) ==
    IF idx > Len(data_lookup.src_label_list) THEN <<>>
    ELSE LET n_corners == data_lookup.n_rendering_corners[idx]
             n_bez     == data_lookup.n_bezier_points[idx]
         IN  <<[src           |-> strip_nuls(data_lookup.src_label_list[idx]),
                dst           |-> strip_nuls(data_lookup.dst_label_list[idx]),
                k_nn          |-> data_lookup.k_nn_list[idx],
                src_neighbors |-> data_lookup.src_neighbor_list[idx],
                dst_neighbors |-> data_lookup.dst_neighbor_list[idx],
                rendering_corners |->
                    SubSeq(data_lookup.rendering_corners,
                           corner0 + 1, corner0 + n_corners),
                bezier_control_points |->
                    SubSeq(data_lookup.bezier_control_points,
                           bez0 + 1, bez0 + n_bez)]>>
             \o read_connections(data_lookup, idx + 1,
                                 corner0 + n_corners, bez0 + n_bez)

\* lines 641-702
connection_list_from_hdf5(data_lookup) == read_connections(data_lookup, 1, 0, 0)

(***************************************************************************)
(* Specification SpecStore: a list of connections is written and read back *)
(***************************************************************************)
MaxConnections == 2

LabelChoices == {<<97>>, <<97, 98>>, <<98, 99, 100>>}

CornerChoices ==
    {<<>>,
     <<<<1, 1>>, <<2, 1>>, <<2, 2>>>>,
     <<<<3, 3>>, <<4, 3>>, <<4, 4>>, <<3, 4>>>>}

BezierChoices == {<<<<5, 5>>, <<6, 6>>>>, <<<<7, 7>>>>}

ConnectionChoices ==
    {[src                   |-> src,
      dst                   |-> <<98>>,
      k_nn                  |-> 15,
      src_neighbors         |-> Len(src) + Len(corners),
      dst_neighbors         |-> Len(bez),
      rendering_corners     |-> corners,
      bezier_control_points |-> bez] :
        src \in LabelChoices, corners \in CornerChoices, bez \in BezierChoices}

RECURSIVE ConnectionLists(_)
ConnectionLists(n) ==
    IF n = 0 THEN {<<>>}
    ELSE LET shorter == ConnectionLists(n - 1)
         IN  shorter \cup
             {Append(l, c) : l \in {x \in shorter : Len(x) = n - 1},
                             c \in ConnectionChoices}

InitStore ==
    /\ pc = "store"
    /\ qh_start = 0
    /\ d_in \in ConnectionLists(MaxConnections)
    /\ d_procs = <<>>
    /\ d_files = <<>>
    /\ d_out = <<>>
    /\ process_list = <<>>
    /\ d_dst = <<>>
    /\ IdleMerge /\ IdleCompound /\ IdlePts /\ IdleGate /\ IdleRender
    /\ IdleObj

\* lines 571-638
WriteConnections ==
    /\ pc = "store"
    /\ IF Len(d_in) = 0
       THEN /\ pc' = "store_raised"
            /\ d_out' = [raised |-> "ValueError", connections |-> <<>>]
            /\ d_files' = d_files
       ELSE /\ pc' = "stored"
            /\ d_out' = d_out
            /\ d_files' = connection_arrays(d_in)
    /\ UNCHANGED <<qh_start, d_in, process_list, d_dst, d_procs>>
    /\ UNCHANGED <<mergeVars, compoundVars, ptsVars, gateVars, renderVars,
                   objVars>>

\* lines 641-702
ReadConnections ==
    /\ pc = "stored"
    /\ pc' = "read_back"
    /\ d_out' = [raised |-> "", connections |-> connection_list_from_hdf5(d_files)]
    /\ UNCHANGED <<qh_start, d_in, process_list, d_dst, d_procs, d_files>>
    /\ UNCHANGED <<mergeVars, compoundVars, ptsVars, gateVars, renderVars,
                   objVars>>

NextStore == WriteConnections \/ ReadConnections

SpecStore == InitStore /\ [][NextStore]_vars

(***************************************************************************)
(* Properties of the stored connections                                    *)
(***************************************************************************)
\* what was read back is the list that was written
SameConnections ==
    /\ d_out.raised = ""
    /\ Len(d_out.connections) = Len(d_in)
    /\ \A k \in 1..Len(d_in) : d_out.connections[k] = d_in[k]

\* C15: for any list of connections of one level, writing it and reading it
\* back gives the same number of connections in the same order, each with
\* its own labels, k_nn, neighbor counts, rendering_corners rows and
\* bezier_control_points rows, also when the counts differ.
C15_RoundTrip ==
    pc \in {"read_back", "store_raised"} => SameConnections

\* the same for the lists that have a connection
RoundTripNonEmpty ==
    pc = "read_back" => SameConnections

\* two connections with labels of different lengths and different numbers
\* of corners and control points come back as they were
RoundTripReached ==
    /\ pc = "read_back"
    /\ Len(d_in) = 2
    /\ Len(d_in[1].src) < Len(d_in[2].src)
    /\ Len(d_in[1].rendering_corners) = 4
    /\ Len(d_in[2].rendering_corners) = 3
    /\ Len(d_in[1].bezier_control_points) # Len(d_in[2].bezier_control_points)
    /\ SameConnections

(***************************************************************************)
(* mixture_matrix_generator.create_mixture_matrices and                    *)
(* serialize_svg_data.write_out_svg_cache: the check of dst_path, then the *)
(* worker processes                                                        *)
(***************************************************************************)
\* a check that unlinks whatever the flag says
svg_clobber_check_always_unlinks(dst, clobber) ==
    IF dst.kind = "absent" THEN [raised |-> "", dst |-> dst]
    ELSE IF dst.kind = "dir" THEN [raised |-> "OSError", dst |-> dst]
    ELSE [raised |-> "", dst |-> Absent]

\* serialize_svg_data.py lines 97-104; unlink() of a directory fails
svg_clobber_check(dst, clobber) ==
    IF dst.kind = "absent" THEN [raised |-> "", dst |-> dst]
    ELSE IF ~clobber THEN [raised |-> "RuntimeError", dst |-> dst]
    ELSE IF dst.kind = "dir" THEN [raised |-> "OSError", dst |-> dst]
    ELSE [raised |-> "", dst |-> Absent]

\* mixture_matrix_generator.py lines 146-156
mixture_clobber_check(dst, clobber) ==
    IF dst.kind = "absent" THEN [raised |-> "", dst |-> dst]
    ELSE IF ~clobber THEN [raised |-> "RuntimeError", dst |-> dst]
    ELSE IF dst.kind # "file" THEN [raised |-> "RuntimeError", dst |-> dst]
    ELSE [raised |-> "", dst |-> Absent]

\* h5py.File(path, mode) for the modes 'w' and 'a', followed by the writing
\* of one level
serialize_fov(dst, mode, level) ==
    IF mode = "a" /\ dst.kind = "file"
    THEN File("svg_cache", Append(dst.data, level))
    ELSE File("svg_cache", <<level>>)

\* list.pop(ii), ii counted from 1
Pop(list, ii) == SubSeq(list, 1, ii - 1) \o SubSeq(list, ii + 1, Len(list))

\* serialize_svg_data.py lines 208-209: the pops, in the order of to_pop
RECURSIVE pop_each(_, _)
pop_each(list, to_pop) ==
    IF Len(to_pop) = 0 THEN [raised |-> "", list |-> list]
    ELSE IF Head(to_pop) > Len(list)
    THEN [raised |-> "IndexError", list |-> list]
    ELSE pop_each(Pop(list, Head(to_pop)), Tail(to_pop))

\* lines 200-203: the positions of the processes that have exited, from the
\* end of the list down to position ii
RECURSIVE to_pop_from(_, _, _)
to_pop_from(list, procs, ii) ==
    IF ii > Len(list) THEN <<>>
    ELSE to_pop_from(list, procs, ii + 1)
         \o (IF procs[list[ii]].exit # "running" THEN <<ii>> ELSE <<>>)

\* a loop that runs over the list from its start to its end
winnow_process_list_forward(list, procs) ==
    LET down == to_pop_from(list, procs, 1)
        up   == [k \in 1..Len(down) |-> down[Len(down) + 1 - k]]
    IN  IF \E ii \in 1..Len(list) : procs[list[ii]].exit = "failed"
        THEN [raised |-> "RuntimeError", list |-> list]
        ELSE pop_each(list, up)

\* serialize_svg_data.py lines 187-210: list holds the processes (their
\* positions in procs), procs their exit codes when the call reads them
\* ("running": None, "done": 0, "failed": not 0)
winnow_process_list(list, procs) ==
    IF \E ii \in 1..Len(list) : procs[list[ii]].exit = "failed"
    THEN [raised |-> "RuntimeError", list |-> list]
    ELSE pop_each(list, to_pop_from(list, procs, 1))

(***************************************************************************)
(* Specification SpecClobber: one call of create_mixture_matrices or of    *)
(* write_out_svg_cache, with something or nothing at dst_path              *)
(***************************************************************************)
MaxLevels == 3

OldFile == File("old", <<>>)

ClobberCalls ==
    [fn           : {"create_mixture_matrices"},
     clobber      : BOOLEAN,
     existing     : {Absent, OldFile, Directory},
     data         : {<<0, 1>>, <<0, 1, 3, 4>>},
     types        : {<<1, 2>>, <<1, 1, 2, 2>>},
     n_types      : {NTypes},
     k_nn         : {1, 2},
     n_processors : {1, 2},
     n_levels     : {0}]
    \cup
    [fn           : {"write_out_svg_cache"},
     clobber      : BOOLEAN,
     existing     : {Absent, OldFile, Directory},
     data         : {<<>>},
     types        : {<<>>},
     n_types      : {0},
     k_nn         : {0},
     n_processors : {0},
     n_levels     : 1..MaxLevels]

InitClobber ==
    /\ pc = "clobber_check"
    /\ qh_start = 0
    /\ d_in \in {c \in ClobberCalls : Len(c.data) = Len(c.types)}
    /\ d_procs = <<>>
    /\ d_files = <<>>
    /\ d_dst = d_in.existing
    /\ d_out = <<>>
    /\ process_list = <<>>
    /\ IdleMerge /\ IdleCompound /\ IdlePts /\ IdleGate /\ IdleRender
    /\ IdleObj

\* mixture_matrix_generator.py lines 146-172: after the check the call goes
\* on as _create_mixture_matrices
MixtureClobberCheck ==
    /\ pc = "clobber_check"
    /\ d_in.fn = "create_mixture_matrices"
    /\ LET checked == mixture_clobber_check(d_dst, d_in.clobber)
       IN  /\ d_dst' = checked.dst
           /\ IF checked.raised # ""
              THEN /\ pc' = "raised"
                   /\ d_out' = [raised |-> checked.raised, matrix |-> <<>>]
              ELSE /\ pc' = "spawn"
                   /\ d_out' = d_out
    /\ UNCHANGED <<qh_start, d_in, process_list, d_procs, d_files>>
    /\ UNCHANGED <<mergeVars, compoundVars, ptsVars, gateVars, renderVars,
                   objVars>>

\* serialize_svg_data.py lines 88-106
SvgClobberCheck ==
    /\ pc = "clobber_check"
    /\ d_in.fn = "write_out_svg_cache"
    /\ LET checked == svg_clobber_check(d_dst, d_in.clobber)
       IN  /\ d_dst' = checked.dst
           /\ IF checked.raised # ""
              THEN /\ pc' = "raised"
                   /\ d_out' = [raised |-> checked.raised, matrix |-> <<>>]
              ELSE /\ pc' = "svg_spawn"
                   /\ d_out' = d_out
    /\ UNCHANGED <<qh_start, d_in, process_list, d_procs, d_files>>
    /\ UNCHANGED <<mergeVars, compoundVars, ptsVars, gateVars, renderVars,
                   objVars>>

\* serialize_svg_data.py lines 110-126: the worker of the next level is
\* started, the first with mode 'w' and the others with mode 'a'
StartLevel ==
    /\ pc = "svg_spawn"
    /\ d_procs' = Append(d_procs,
                         [level  |-> Len(d_procs) + 1,
                          mode   |-> IF Len(d_procs) = 0 THEN "w" ELSE "a",
                          exit   |-> "running"])
    /\ process_list' = Append(process_list, Len(d_procs) + 1)
    /\ pc' = IF Len(d_procs) + 1 < d_in.n_levels THEN "svg_spawn" ELSE "svg_wait"
    /\ UNCHANGED <<qh_start, d_in, d_files, d_dst, d_out>>
    /\ UNCHANGED <<mergeVars, compoundVars, ptsVars, gateVars, renderVars,
                   objVars>>

\* serialize_svg_data.py lines 135-184: a worker takes the lock, writes its
\* level and exits with code 0, or dies of an exception before it writes
LevelWorker ==
    /\ \E k \in 1..Len(d_procs) :
           /\ d_in.fn = "write_out_svg_cache"
           /\ d_procs[k].exit = "running"
           /\ \/ /\ d_dst' = serialize_fov(d_dst, d_procs[k].mode,
                                            d_procs[k].level)
                 /\ d_procs' = [d_procs EXCEPT ![k].exit = "done"]
              \/ /\ d_dst' = d_dst
                 /\ d_procs' = [d_procs EXCEPT ![k].exit = "failed"]
    /\ UNCHANGED <<pc, qh_start, d_in, process_list, d_files, d_out>>
    /\ UNCHANGED <<mergeVars, compoundVars, ptsVars, gateVars, renderVars,
                   objVars>>

\* serialize_svg_data.py lines 128-129: one turn of the while loop
SvgWait ==
    /\ pc = "svg_wait"
    /\ Len(process_list) > 0
    /\ LET winnowed == winnow_process_list(process_list, d_procs)
       IN  IF winnowed.raised # ""
           THEN /\ pc' = "raised"
                /\ d_out' = [raised |-> winnowed.raised, matrix |-> <<>>]
                /\ process_list' = process_list
           ELSE /\ pc' = pc
                /\ d_out' = d_out
                /\ process_list' = winnowed.list
    /\ UNCHANGED <<qh_start, d_in, d_procs, d_files, d_dst>>
    /\ UNCHANGED <<mergeVars, compoundVars, ptsVars, gateVars, renderVars,
                   objVars>>

\* serialize_svg_data.py lines 128, 131-132: the list is empty and the call
\* returns
SvgReturn ==
    /\ pc = "svg_wait"
    /\ Len(process_list) = 0
    /\ pc' = "svg_done"
    /\ d_out' = [raised |-> "", matrix |-> <<>>]
    /\ UNCHANGED <<qh_start, d_in, process_list, d_procs, d_files, d_dst>>
    /\ UNCHANGED <<mergeVars, compoundVars, ptsVars, gateVars, renderVars,
                   objVars>>

NextClobber ==
    \/ MixtureClobberCheck \/ SvgClobberCheck
    \/ RangeRaises \/ StartChunk \/ WorkerExit \/ WaitForWorkers \/ JoinTmpFiles
    \/ StartLevel \/ LevelWorker \/ SvgWait \/ SvgReturn

SpecClobber == InitClobber /\ [][NextClobber]_vars

\* the while loop of write_out_svg_cache keeps turning, and the call
\* returns once the loop is left
SpecClobberFair ==
    InitClobber /\ [][NextClobber]_vars
        /\ WF_vars(SvgWait) /\ WF_vars(SvgReturn)

(***************************************************************************)
(* Properties of the check of dst_path                                     *)
(***************************************************************************)
Checked == pc # "clobber_check"

Existed == d_in.existing.kind # "absent"

\* C16: when dst_path exists and clobber is False the call raises
\* RuntimeError before a worker is started and leaves what is there as it
\* is; what is there is removed or replaced only with clobber True, and then
\* the old file never stays; create_mixture_matrices also raises, deleting
\* nothing, when the path is not a file.
C16_Clobber ==
    /\ (Checked /\ Existed /\ ~d_in.clobber) =>
           /\ pc = "raised"
           /\ d_out.raised = "RuntimeError"
           /\ d_procs = <<>>
           /\ d_dst = d_in.existing
    /\ (Existed /\ d_dst # d_in.existing) => d_in.clobber
    /\ (Checked /\ d_in.clobber /\ d_in.existing.kind = "file") =>
           d_dst # d_in.existing
    /\ (Checked /\ d_in.clobber /\ d_in.existing.kind = "dir"
            /\ d_in.fn = "create_mixture_matrices") =>
           /\ pc = "raised"
           /\ d_out.raised = "RuntimeError"
           /\ d_procs = <<>>
           /\ d_dst = d_in.existing

\* with clobber True the old file has been replaced by the cache of all the
\* levels
C16_Witness ==
    /\ pc = "svg_done"
    /\ d_in.clobber
    /\ d_in.existing = OldFile
    /\ d_in.n_levels = 3
    /\ d_dst = File("svg_cache", <<1, 2, 3>>)

(***************************************************************************)
(* hull.create_compound_bare_hull and hull.merge_bare_hulls on Python      *)
(* objects                                                                 *)
(*                                                                         *)
(* heap.hulls[k] is the BareHull object k and heap.lists[k] the list       *)
(* object k, a sequence of hull objects; refs gives the list objects the   *)
(* caller's name and the function's name bare_hull_list refer to, and the  *)
(* list of the returned CompoundBareHull (0: none).                        *)
(***************************************************************************)
deref(objects, list_id) ==
    [k \in 1..Len(objects.lists[list_id]) |->
        objects.hulls[objects.lists[list_id][k]]]

\* an assignment that writes into the list the name refers to
rebind_list_in_place(objects, list_id, items) ==
    [objects |-> [objects EXCEPT !.lists[list_id] = items],
     ref     |-> list_id]

\* lines 432-438: new_hull_list is a new list object and the name
\* bare_hull_list is bound to it
rebind_list(objects, list_id, items) ==
    [objects |-> [objects EXCEPT !.lists = Append(objects.lists, items)],
     ref     |-> Len(objects.lists) + 1]

\* lines 301-318 return the objects bare0 and bare1 themselves; lines 396-406
\* build a BareHull, whose __init__ (lines 85-93) copies the points
merger_object(objects, id0, id1, merger) ==
    IF merger.n_intersections = 0 \/ merger.n_intersections % 2 = 1
    THEN [objects |-> objects,
          ref     |-> IF merger.hulls[1] = objects.hulls[id0] THEN id0 ELSE id1]
    ELSE [objects |-> [objects EXCEPT !.hulls = Append(objects.hulls,
                                                      merger.hulls[1])],
          ref     |-> Len(objects.hulls) + 1]

\* lines 417-440 on objects: k is the pair the scan stopped at
pass_on_objects(objects, list_id, ms, k) ==
    LET ids == objects.lists[list_id]
    IN  IF k = 0
        THEN [bound |-> rebind_list(objects, list_id, ids), to |-> "break"]
        ELSE IF ms[k].raised # ""
        THEN [bound |-> [objects |-> objects, ref |-> list_id], to |-> "raised"]
        ELSE LET pair   == scan_order(Len(ids), 1, 2)[k]
                 merged == merger_object(objects, ids[pair[1]], ids[pair[2]],
                                         ms[k])
             IN  [bound |-> rebind_list(merged.objects, list_id,
                                        new_hull_list(ids, pair, merged.ref)),
                  to    |-> "loop"]

(***************************************************************************)
(* Specification SpecFrame: one call of create_compound_bare_hull, with    *)
(* the objects it reads and creates                                        *)
(***************************************************************************)
FrameInputs == {SqA, SqB, Inner, Far, TriOdd}

MaxFrameHulls == 3

InitFrame ==
    /\ pc = "frame_loop"
    /\ qh_start \in QhStarts
    /\ c_arg \in {l \in HullLists(FrameInputs, MaxFrameHulls) : Distinct(l)}
    /\ heap = [hulls |-> c_arg, lists |-> <<[k \in 1..Len(c_arg) |-> k]>>]
    /\ refs = [caller |-> 1, bare_hull_list |-> 1, returned |-> 0]
    /\ bare_hull_list = <<>> /\ c_ret = <<>> /\ c_prev = <<>> /\ n_pass = 0
    /\ IdleMerge /\ IdlePts /\ IdleGate /\ IdleRender /\ IdleData

\* one iteration of the while loop (lines 417-440)
FramePass ==
    /\ pc = "frame_loop"
    /\ \E ms \in {mergers(deref(heap, refs.bare_hull_list))} :
       \E out \in {pass_on_objects(heap, refs.bare_hull_list, ms,
                                   first_stop(ms))} :
           /\ heap' = out.bound.objects
           /\ refs' = [refs EXCEPT !.bare_hull_list = out.bound.ref]
           /\ pc' = "frame_" \o out.to
    /\ n_pass' = n_pass + 1
    /\ UNCHANGED <<qh_start, bare_hull_list, c_arg, c_ret, c_prev>>
    /\ UNCHANGED <<mergeVars, ptsVars, gateVars, renderVars, dataVars>>

\* lines 442-450
FrameReturn ==
    /\ pc = "frame_break"
    /\ refs' = [refs EXCEPT !.returned =
                   IF Len(heap.lists[refs.bare_hull_list]) = 0 THEN 0
                   ELSE refs.bare_hull_list]
    /\ pc' = "frame_returned"
    /\ UNCHANGED <<qh_start, heap, compoundVars>>
    /\ UNCHANGED <<mergeVars, ptsVars, gateVars, renderVars, dataVars>>

NextFrame == FramePass \/ FrameReturn

SpecFrame == InitFrame /\ [][NextFrame]_vars

(***************************************************************************)
(* Properties of the objects                                               *)
(***************************************************************************)
InFrame == pc \in {"frame_loop", "frame_break", "frame_raised", "frame_returned"}

\* C17: the caller's bare_hull_list keeps its length, order and elements,
\* and every input hull its points, vertices and segments, whether or not a
\* merge happened; what is returned is a new list, and a boundary built by a
\* merge is a new hull.
C17_InputsUntouched ==
    InFrame =>
        /\ heap.lists[refs.caller] = [k \in 1..Len(c_arg) |-> k]
        /\ \A k \in 1..Len(c_arg) :
               /\ heap.hulls[k].points = c_arg[k].points
               /\ heap.hulls[k].vertices = c_arg[k].vertices
               /\ segments(heap.hulls[k]) = segments(c_arg[k])
               /\ i_segments(heap.hulls[k]) = i_segments(c_arg[k])
        /\ (pc = "frame_returned" /\ refs.returned # 0) =>
               /\ refs.returned # refs.caller
               /\ \A j \in 1..Len(heap.lists[refs.returned]) :
                      LET id == heap.lists[refs.returned][j]
                      IN  \/ id <= Len(c_arg) /\ heap.hulls[id] = c_arg[id]
                          \/ id > Len(c_arg)
                               /\ \A k \in 1..Len(c_arg) :
                                      heap.hulls[id] # c_arg[k]

\* C17 as stated: the boundary that a merging pass puts at the head of the
\* new list is always a hull object that did not exist before the pass.
C17_MergedAlwaysNew ==
    [][(pc = "frame_loop" /\ pc' = "frame_loop") =>
           heap'.lists[refs'.bare_hull_list][1] > Len(heap.hulls)]_vars

\* SqA and SqB have merged into a new hull and Far has stayed: the returned
\* list holds the new object and the object Far, the caller's list holds the
\* three hulls it held
C17_Witness ==
    /\ pc = "frame_returned"
    /\ c_arg = <<SqA, SqB, Far>>
    /\ heap.lists[refs.returned] = <<4, 3>>
    /\ deref(heap, refs.caller) = <<SqA, SqB, Far>>
    /\ n_pass = 2

(***************************************************************************)
(* The start of the merge walk (hull.py lines 372-385), under SpecMerge    *)
(***************************************************************************)
\* merge_bare_hulls went through the walk and returned its boundary
Walked ==
    /\ pc = "merged"
    /\ m_out.raised = ""
    /\ m_out.n_intersections > 0
    /\ m_out.n_intersections % 2 = 0

Arena ==
    all_points(m_bare0, m_bare1,
               find_all_intersections(m_bare0, m_bare1, 1, <<>>))

\* the positions, in ConvexHull(all_points).vertices, of the vertices of A
OuterOfA ==
    {k \in 1..Len(ConvexHull(Arena).vertices) :
        ConvexHull(Arena).vertices[k] <= Len(m_bare0.points)}

StartsAt(k) ==
    m_out.hulls[1].points[1] = Arena[ConvexHull(Arena).vertices[k]]

\* C18 as stated: the merged boundary's first point is the first vertex, in
\* the order of the vertices of the convex hull of the arena, that belongs
\* to A.
C18_StartsAtFirst ==
    Walked => \E k \in OuterOfA : StartsAt(k) /\ \A j \in OuterOfA : k <= j

\* C18, amended: the merged boundary's first point is the last vertex, in the
\* order of the vertices of the convex hull of the arena, that belongs to A.
C18_StartsAtLast ==
    Walked => \E k \in OuterOfA : StartsAt(k) /\ \A j \in OuterOfA : j <= k

\* HBar and VBar cross twice; several vertices of HBar are on the outer hull
\* and the walk has started at one that is not the first of them
C18_Witness ==
    /\ Walked
    /\ m_bare0 = HBar /\ m_bare1 = VBar
    /\ Cardinality(OuterOfA) >= 2
    /\ \E k \in OuterOfA : StartsAt(k) /\ \E j \in OuterOfA : j < k

(***************************************************************************)
(* The merge walk (hull.py lines 384-406), under SpecMerge                 *)
(***************************************************************************)
\* merge_bare_hulls has been called on boundaries with an even, nonzero
\* number of intersections
EvenCrossing ==
    /\ pc = "merged"
    /\ m_out.n_intersections > 0
    /\ m_out.n_intersections % 2 = 0

\* C19: for every pair of boundaries with an even, nonzero number of
\* intersections the walk comes back to its starting index (the call does
\* not run forever) and never looks up an index missing from the current
\* successor map (no KeyError).
C19_WalkCloses ==
    EvenCrossing => m_out.raised \notin {"NoReturn", "KeyError"}

\* SqA and SqB cross twice: the walk has switched maps at both intersections
\* and closed after the 8 points of the merged boundary
C19_Witness ==
    /\ EvenCrossing
    /\ m_bare0 = SqA /\ m_bare1 = SqB
    /\ m_out.raised = ""
    /\ Len(m_out.hulls[1].points) = 8

(***************************************************************************)
(* The arena and the successor maps (hull.py lines 278-294, 330-370),      *)
(* under SpecMerge                                                         *)
(***************************************************************************)
Crossings == find_all_intersections(m_bare0, m_bare1, 1, <<>>)

NAll == Len(m_bare0.points) + Len(m_bare1.points)

SuccessorMaps == new_bare_hulls(m_bare0, m_bare1, Crossings)

\* the pairs (segment of A, segment of B) that intersect
CrossingPairs ==
    {pair \in (1..Len(m_bare0.points)) \X (1..Len(m_bare1.points)) :
        find_intersection_pt(segments(m_bare0)[pair[1]],
                             segments(m_bare1)[pair[2]]).hit}

\* the intersection indices met from idx on, following map, up to the next
\* vertex index
RECURSIVE ChainFrom(_, _, _)
ChainFrom(map, idx, fuel) ==
    IF idx \notin DOMAIN map \/ fuel = 0 THEN [via |-> <<>>, end |-> 0]
    ELSE IF map[idx] <= NAll THEN [via |-> <<>>, end |-> map[idx]]
    ELSE LET rest == ChainFrom(map, map[idx], fuel - 1)
         IN  [via |-> <<map[idx]>> \o rest.via, end |-> rest.end]

\* on segment i_seg of boundary hull (0: A, 1: B), whose vertices have arena
\* indices offset + 1 .. : every intersection of the segment is chained, by
\* increasing distance from the segment's start, before the segment's end
ChainedByDistance(hull, i_hull, offset, i_seg) ==
    LET chain == ChainFrom(SuccessorMaps[i_hull + 1].new_hull, offset + i_seg,
                           Len(Crossings) + 1)
        src   == hull.points[i_seg]
        on    == {NAll + k : k \in {j \in 1..Len(Crossings) :
                      IF i_hull = 0 THEN Crossings[j].i0 = i_seg
                      ELSE Crossings[j].i1 = i_seg}}
    IN  /\ chain.end = offset + NextIdx(i_seg, Len(hull.points))
        /\ {chain.via[k] : k \in 1..Len(chain.via)} = on
        /\ Len(chain.via) = Cardinality(on)
        /\ \A j, k \in 1..Len(chain.via) :
               j < k => DistSq(Crossings[chain.via[j] - NAll].pt, src)
                          <= DistSq(Crossings[chain.via[k] - NAll].pt, src)

\* map gives every index of keys exactly one successor and one predecessor
OneToOne(map, keys) ==
    /\ DOMAIN map = keys
    /\ {map[k] : k \in DOMAIN map} = keys
    /\ \A j, k \in DOMAIN map : map[j] = map[k] => j = k

CrossingIdx == {NAll + k : k \in 1..Len(Crossings)}

\* C20: the intersections get their arena indices in (segment of A, segment
\* of B) enumeration order; on every segment of either boundary they are
\* chained by increasing distance from the segment's start before the
\* segment's end; no assert on a duplicate source or destination fails and
\* each successor map gives every vertex of its boundary and every
\* intersection index exactly one successor and one predecessor.
C20_SuccessorMaps ==
    EvenCrossing =>
        /\ Len(Crossings) = Cardinality(CrossingPairs)
        /\ \A k \in 1..Len(Crossings) :
               /\ <<Crossings[k].i0, Crossings[k].i1>> \in CrossingPairs
               /\ Arena[NAll + k] =
                      find_intersection_pt(
                          segments(m_bare0)[Crossings[k].i0],
                          segments(m_bare1)[Crossings[k].i1]).pt
        /\ \A j, k \in 1..Len(Crossings) :
               j < k => \/ Crossings[j].i0 < Crossings[k].i0
                        \/ /\ Crossings[j].i0 = Crossings[k].i0
                           /\ Crossings[j].i1 < Crossings[k].i1
        /\ \A i \in 1..Len(m_bare0.points) :
               ChainedByDistance(m_bare0, 0, 0, i)
        /\ \A i \in 1..Len(m_bare1.points) :
               ChainedByDistance(m_bare1, 1, Len(m_bare0.points), i)
        /\ ~SuccessorMaps[1].err /\ ~SuccessorMaps[2].err
        /\ OneToOne(SuccessorMaps[1].new_hull,
                    (1..Len(m_bare0.points)) \cup CrossingIdx)
        /\ OneToOne(SuccessorMaps[2].new_hull,
                    ((Len(m_bare0.points) + 1)..NAll) \cup CrossingIdx)

\* the lower edge of Wide is crossed by two edges of Cross; the crossing at
\* x = 8 is found first (arena index 9) and the one at x = 5, nearer to the
\* start of the edge, second (arena index 10): the chain on the edge is
\* 1 -> 10 -> 9 -> 2
C20_Witness ==
    /\ EvenCrossing
    /\ m_bare0 = Wide /\ m_bare1 = Cross
    /\ Len(Crossings) = 2
    /\ ChainFrom(SuccessorMaps[1].new_hull, 1, 3) =
           [via |-> <<10, 9>>, end |-> 2]

(***************************************************************************)
(* The arrays get_hulls_for_leaf returns (data_cache.py lines 1302-1324),  *)
(* under SpecCentroids                                                     *)
(***************************************************************************)
\* the leaves whose hulls have been found and are not None
LeavesWithHulls ==
    {leaf \in 1..Len(d_files) :
        /\ pc \in {"leaf_hulls", "centroids_fixed"}
        /\ d_files[leaf] # Pending
        /\ ~d_files[leaf].none}

\* arr holds points of pts, in the order of pts (the points of pts differ
\* from one another)
RowsOf(arr, pts) ==
    arr = Take(pts, {i \in 1..Len(pts) :
                        \E k \in 1..Len(arr) : arr[k] = pts[i]})

\* C21 as stated: every point array in the list get_hulls_for_leaf returns
\* has at least min_pts points, and the result is None or a non-empty list.
C21_AtLeastMinPts ==
    \A leaf \in LeavesWithHulls :
        /\ Len(d_files[leaf].hulls) > 0
        /\ \A h \in 1..Len(d_files[leaf].hulls) :
               Len(d_files[leaf].hulls[h]) >= min_pts

\* C21, amended: the result is None or a non-empty list; it is either the
\* one array of all the points of the leaf, however few, or a list of
\* subsets of them of at least min_pts points each.
C21_MinPtsOrAll ==
    \A leaf \in LeavesWithHulls :
        /\ Len(d_files[leaf].hulls) > 0
        /\ \/ d_files[leaf].hulls = <<d_in.leaf_pts[leaf]>>
           \/ \A h \in 1..Len(d_files[leaf].hulls) :
                  /\ Len(d_files[leaf].hulls[h]) >= min_pts
                  /\ RowsOf(d_files[leaf].hulls[h], d_in.leaf_pts[leaf])

\* a leaf of 14 points of which one subset of 10 was kept and one of 4
\* dropped, and a leaf of 4 points that came back whole
C21_Witness ==
    /\ pc = "leaf_hulls"
    /\ Len(d_files) = 2
    /\ d_in.leaf_pts[1] = Big
    /\ d_in.leaf_pts[2] = CloudTriangle
    /\ LeavesWithHulls = {1, 2}
    /\ d_files[1].hulls = <<Take(Big, (1..7) \cup (11..13))>>
    /\ d_files[2].hulls = <<CloudTriangle>>

(***************************************************************************)
(* winnow_process_list and the waiting loop of write_out_svg_cache         *)
(* (serialize_svg_data.py lines 128-132, 187-210), under SpecClobberFair   *)
(***************************************************************************)
StillRunning(k) == d_procs[k].exit = "running"

\* a turn of the waiting loop: at "svg_wait", with processes in the list,
\* only the workers (which change d_procs) and the loop take steps
WinnowTurn ==
    /\ pc = "svg_wait"
    /\ Len(process_list) > 0
    /\ d_procs' = d_procs

WinnowResult ==
    IF \E ii \in 1..Len(process_list) : d_procs[process_list[ii]].exit = "failed"
    THEN /\ pc' = "raised"
         /\ d_out'.raised = "RuntimeError"
    ELSE /\ pc' = "svg_wait"
         /\ process_list' = SelectSeq(process_list, StillRunning)

AllExitedWithZero ==
    /\ pc = "svg_wait"
    /\ \A k \in 1..Len(d_procs) : d_procs[k].exit = "done"

\* C22: winnow_process_list returns exactly the processes of its input whose
\* exitcode is None, in their order, and raises RuntimeError instead when a
\* process of the list has exited with a code that is not 0; the waiting
\* loop of write_out_svg_cache is left only with every worker exited with
\* code 0, and once every worker has exited with code 0 it is left.
C22_Winnow ==
    /\ [][WinnowTurn => WinnowResult]_vars
    /\ [](pc = "svg_done" =>
              /\ process_list = <<>>
              /\ Len(d_procs) = d_in.n_levels
              /\ \A k \in 1..Len(d_procs) : d_procs[k].exit = "done")
    /\ (AllExitedWithZero ~> pc = "svg_done")

\* of three workers the second has exited with code 0 and left the list;
\* the first and the third are running and still in it
C22_Witness ==
    /\ pc = "svg_wait"
    /\ d_in.n_levels = 3
    /\ process_list = <<1, 3>>
    /\ d_procs[2].exit = "done"
    /\ d_procs[1].exit = "running" /\ d_procs[3].exit = "running"

(***************************************************************************)
(* The levels in the file write_out_svg_cache leaves                       *)
(* (serialize_svg_data.py lines 106-132, 135-184), under SpecClobber       *)
(***************************************************************************)
LevelsOnDisk ==
    IF d_dst.kind = "file" THEN {d_dst.data[k] : k \in 1..Len(d_dst.data)}
    ELSE {}

\* C23: after write_out_svg_cache has returned, the destination file holds
\* the data of every taxonomy level, in whatever order the workers took the
\* lock.
C23_EveryLevel ==
    (pc = "svg_done" /\ d_in.fn = "write_out_svg_cache") =>
        LevelsOnDisk = 1..d_in.n_levels

\* the call has returned and the file holds the first level alone: the
\* worker of the first level, given mode 'w', was the last to write
LevelsLost ==
    /\ pc = "svg_done"
    /\ d_in.n_levels = 3
    /\ d_dst = File("svg_cache", <<1>>)

(***************************************************************************)
(* The assertion on the starting index (hull.py lines 372-382), under      *)
(* SpecMerge                                                               *)
(***************************************************************************)
\* C24: for every pair of boundaries with an even, nonzero number of
\* intersections at least one vertex of the first boundary is a vertex of
\* the convex hull of the arena, and the assertion that a starting index
\* was found does not fail.
C24_StartFound ==
    EvenCrossing =>
        /\ OuterOfA # {}
        /\ m_out.raised # "AssertionError"

\* Side lies in HBar with two of its edges on edges of HBar: both are
\* convex, the corners of Side on the boundary of HBar count as
\* intersections, and no vertex of Side is on the outer hull
StartNotFoundInside ==
    /\ EvenCrossing
    /\ m_bare0 = Side /\ m_bare1 = HBar
    /\ OuterOfA = {}
    /\ m_out.raised = "AssertionError"

\* Cross lies in the hollow of the L shape and crosses one of its edges
\* twice: no vertex of Cross is on the outer hull
StartNotFound ==
    /\ EvenCrossing
    /\ m_bare0 = Cross /\ m_bare1 = LShape
    /\ m_out.n_intersections = 2
    /\ OuterOfA = {}
    /\ m_out.raised = "AssertionError"

(***************************************************************************)
(* The indices of the merged boundary (hull.py lines 384-406), under       *)
(* SpecMerge                                                               *)
(***************************************************************************)
\* final_points of the call that returned the merged boundary
FinalPoints ==
    walk(<<SuccessorMaps[1].new_hull, SuccessorMaps[2].new_hull>>, 1,
         <<starting_idx(m_bare0, ConvexHull(Arena))>>,
         2 * Len(Arena)).final_points

\* C25: the boundary returned by the merge walk holds no arena index twice;
\* it is the arena points at final_points, in that order.
C25_NoIndexTwice ==
    Walked =>
        LET final_points == FinalPoints
            arena        == Arena
        IN  /\ \A j, k \in 1..Len(final_points) :
                   final_points[j] = final_points[k] => j = k
            /\ \A k \in 1..Len(final_points) :
                   final_points[k] \in 1..Len(arena)
            /\ m_out.hulls[1].points =
                   [k \in 1..Len(final_points) |-> arena[final_points[k]]]

\* HBar and VBar cross twice: the merged boundary runs over three vertices
\* of HBar, three of VBar and the two intersections, each once
C25_Witness ==
    /\ Walked
    /\ m_bare0 = HBar /\ m_bare1 = VBar
    /\ Len(FinalPoints) = 8
    /\ {FinalPoints[k] : k \in 1..8} \cap (9..10) = {9, 10}

\* ... while the points of a merged boundary may coincide: SqA touches HBar
\* along edges, and the boundary returned for them holds a point twice
PointTwice ==
    /\ Walked
    /\ \E j, k \in 1..Len(m_out.hulls[1].points) :
           j # k /\ m_out.hulls[1].points[j] = m_out.hulls[1].points[k]

(***************************************************************************)
(* hull_utils.get_test_pts                                                 *)
(***************************************************************************)
\* slop = 0.05, as 1 / slop_inverse: the bounds are compared multiplied by
\* slop_inverse, which keeps them whole numbers
slop_inverse == 20

\* lines 248-297: umap_coords and cluster_aliases are the cells of the cache,
\* alias_list the aliases of the taxon
get_test_pts(umap_coords, cluster_aliases, alias_list) ==
    LET n_cells       == Len(umap_coords)
        alias_set     == {alias_list[k] : k \in 1..Len(alias_list)}
        valid_pt_mask == [k \in 1..n_cells |-> cluster_aliases[k] \in alias_set]
        valid_pt_idx  == Where(valid_pt_mask)
        valid_pts     == Compress(umap_coords, valid_pt_mask)
        x_values      == [k \in 1..Len(valid_pts) |-> valid_pts[k][1]]
        y_values      == [k \in 1..Len(valid_pts) |-> valid_pts[k][2]]
        dx            == max_of(x_values) - min_of(x_values)
        dy            == max_of(y_values) - min_of(y_values)
        xmin          == slop_inverse * min_of(x_values) - dx
        xmax          == slop_inverse * max_of(x_values) + dx
        ymin          == slop_inverse * min_of(y_values) - dy
        ymax          == slop_inverse * max_of(y_values) + dy
        test_pt_mask  == [k \in 1..n_cells |->
                             /\ slop_inverse * umap_coords[k][1] > xmin
                             /\ slop_inverse * umap_coords[k][1] < xmax
                             /\ slop_inverse * umap_coords[k][2] > ymin
                             /\ slop_inverse * umap_coords[k][2] < ymax]
        test_pt_idx   == Where(test_pt_mask)
        test_pt_validity ==
            [k \in 1..Len(test_pt_idx) |->
                \E j \in 1..Len(valid_pt_idx) : valid_pt_idx[j] = test_pt_idx[k]]
        raises(what)  == [raised |-> what, valid_pts |-> <<>>,
                          test_pts |-> <<>>, test_pt_validity |-> <<>>]
    IN  IF Len(valid_pts) = 0 THEN raises("ValueError")   \* min() of nothing
        ELSE IF CountTrue(test_pt_validity) # Len(valid_pt_idx)
        THEN raises("AssertionError")
        ELSE [raised           |-> "",
              valid_pts        |-> valid_pts,
              test_pts         |-> Compress(umap_coords, test_pt_mask),
              test_pt_validity |-> test_pt_validity]

(***************************************************************************)
(* Specification SpecTestPts: one call of get_test_pts                     *)
(***************************************************************************)
MaxTestCells == 3

UmapChoices == {0, 1, 3} \X {0, 2}

InitTestPts ==
    /\ pc = "test_pts"
    /\ qh_start = 0
    /\ \E n \in 1..MaxTestCells :
           g_in \in [umap_coords     : [1..n -> UmapChoices],
                     cluster_aliases : [1..n -> {1, 2}],
                     alias_list      : {<<1>>, <<1, 2>>}]
    /\ g_out = <<>>
    /\ IdleHulls
    /\ IdleMerge /\ IdleCompound /\ IdlePts /\ IdleRender /\ IdleData
    /\ IdleObj

CallGetTestPts ==
    /\ pc = "test_pts"
    /\ g_out' = get_test_pts(g_in.umap_coords, g_in.cluster_aliases,
                             g_in.alias_list)
    /\ pc' = "test_pts_done"
    /\ UNCHANGED <<qh_start, g_in, raw_hull_list, final_pass, median_dsq,
                   hull_mergers, been_merged, mergeVars, compoundVars,
                   ptsVars, renderVars, dataVars, objVars>>

NextTestPts == CallGetTestPts

SpecTestPts == InitTestPts /\ [][NextTestPts]_vars

(***************************************************************************)
(* Properties of get_test_pts                                              *)
(***************************************************************************)
\* the cells of the taxon, by position
TaxonCells ==
    {k \in 1..Len(g_in.umap_coords) :
        \E j \in 1..Len(g_in.alias_list) :
            g_in.cluster_aliases[k] = g_in.alias_list[j]}

\* C26: for a taxon with at least one cell the assertion at the end of
\* get_test_pts does not fail, and the number of valid test points is the
\* number of cells of the taxon, also when all of them share their x or
\* their y.
C26_AssertHolds ==
    (pc = "test_pts_done" /\ TaxonCells # {}) =>
        /\ g_out.raised = ""
        /\ CountTrue(g_out.test_pt_validity) = Cardinality(TaxonCells)

\* the assertion holds when the cells of the taxon differ in x and in y
AssertHoldsOnProperBox ==
    (pc = "test_pts_done"
        /\ \E j, k \in TaxonCells :
               /\ g_in.umap_coords[j][1] # g_in.umap_coords[k][1]
               /\ g_in.umap_coords[j][2] # g_in.umap_coords[k][2]) =>
        /\ g_out.raised = ""
        /\ CountTrue(g_out.test_pt_validity) = Cardinality(TaxonCells)

\* a taxon of one cell: the box has no extent, no point passes the strict
\* test and the assertion fails
SingleCellTaxon ==
    /\ pc = "test_pts_done"
    /\ Cardinality(TaxonCells) = 1
    /\ g_out.raised = "AssertionError"

(***************************************************************************)
(* The worker processes of _create_mixture_matrices at work at one time    *)
(* (mixture_matrix_generator.py lines 183-207), under SpecMixture          *)
(***************************************************************************)
\* C27: the worker processes started and not yet removed from process_list
\* are never more than n_processors.
C27_AtMostNProcessors ==
    pc \in {"spawn", "wait"} => n_listed(d_procs) <= d_in.n_processors

\* with n_processors = 1 three workers are in the list, all of them running
ThreeWorkersForOne ==
    /\ pc \in {"spawn", "wait"}
    /\ d_in.n_processors = 1
    /\ n_listed(d_procs) = 3
    /\ \A k \in 1..Len(d_procs) : d_procs[k].exit = "running"

(***************************************************************************)
(* The chunks of _create_mixture_matrices (mixture_matrix_generator.py     *)
(* lines 183-195), under SpecMixture                                       *)
(***************************************************************************)
\* the for loop over the chunks has run to its end
ChunksMade == pc \in {"wait", "joined"}

\* every cell index belongs to exactly one chunk, and the chunks follow one
\* another
ChunksPartition ==
    /\ \A i \in 1..Len(d_in.data) :
           Cardinality({k \in 1..Len(d_procs) :
                           d_procs[k].i0 < i /\ i <= d_procs[k].i1}) = 1
    /\ d_procs[1].i0 = 0
    /\ d_procs[Len(d_procs)].i1 = Len(d_in.data)
    /\ \A k \in 1..(Len(d_procs) - 1) : d_procs[k].i1 = d_procs[k + 1].i0

\* C28: for every n_cells >= 1 and n_processors >= 1 the chunking step does
\* not fail, also when n_cells < 2 * n_processors, and the chunks it makes
\* are consecutive and hold every cell index exactly once.
C28_ChunkingNeverFails ==
    /\ ~(pc = "raised" /\ d_out.raised = "ValueError")
    /\ ChunksMade => ChunksPartition

\* whenever the chunk size is not 0 the chunks are such a partition
PartitionWhenChunked ==
    /\ ChunksMade => ChunksPartition
    /\ (pc = "raised" /\ d_out.raised = "ValueError") =>
           Len(d_in.data) < 2 * d_in.n_processors

\* three cells for two processors: the chunk size is 3 // 4 = 0 and range()
\* raises before a worker is started
ChunkSizeZero ==
    /\ pc = "raised"
    /\ d_out.raised = "ValueError"
    /\ Len(d_in.data) = 3
    /\ d_in.n_processors = 2
    /\ d_procs = <<>>

(***************************************************************************)
(* pts_in_hull on the same polygon listed another way (hull_utils.py lines *)
(* 300-331), under SpecPts                                                 *)
(***************************************************************************)
\* the polygon with its vertices in the opposite order
Reversed(hull) ==
    [points   |-> hull.points,
     vertices |-> [k \in 1..Len(hull.vertices) |->
                      hull.vertices[Len(hull.vertices) + 1 - k]]]

\* the polygon with its vertex list starting r places further on
Rotated(hull, r) ==
    [points |-> hull.points, vertices |-> Rotate(hull.vertices, r)]

\* C29: the result of pts_in_hull is the same when the vertices of the
\* polygon are listed in the opposite order, or from another first vertex.
C29_WindingAndStart ==
    PtsDone =>
        /\ p_out = pts_in_hull(p_in.pts, Reversed(p_in.hull))
        /\ \A r \in 1..Len(p_in.hull.vertices) :
               /\ p_out = pts_in_hull(p_in.pts, Rotated(p_in.hull, r))
               /\ p_out = pts_in_hull(p_in.pts,
                                      Rotated(Reversed(p_in.hull), r))

\* the square listed counter-clockwise, with a point inside and a point
\* outside: the point inside is inside the square listed clockwise as well
C29_Witness ==
    /\ PtsDone
    /\ p_in.hull = SqA
    /\ p_in.pts = <<<<2, 2>>, <<6, 6>>>>
    /\ p_out = <<TRUE, FALSE>>
    /\ Reversed(p_in.hull).vertices = <<4, 3, 2, 1>>
    /\ pts_in_hull(p_in.pts, Reversed(p_in.hull)) = <<TRUE, FALSE>>

(***************************************************************************)
(* hull_utils.merge_hulls: the quality-gated merge driver                  *)
(***************************************************************************)
\* the centroids are held as CentroidScale times np.mean(hull.points): the
\* value is exact for every hull whose number of points divides
\* CentroidScale, which is so for the hulls of SpecHulls (4, 8, 12, 16 or 20
\* points)
CentroidScale == 240

\* lines 333-334
_get_hull_centroid(hull) ==
    LET n  == Len(hull.points)
        xs == [k \in 1..n |-> hull.points[k][1]]
        ys == [k \in 1..n |-> hull.points[k][2]]
    IN  <<SumTo(xs, n) * (CentroidScale \div n),
          SumTo(ys, n) * (CentroidScale \div n)>>

\* lines 337-366: dsq[i, j] = p_dot_p[i, i] + p_dot_p[j, j] - 2 p_dot_p[i, j]
\* (in units of CentroidScale squared; the doubles of the code hold these
\* values exactly when the centroids are dyadic)
pairwise_distance_sq(points) ==
    LET n       == Len(points)
        p_dot_p == [i \in 1..n |-> [j \in 1..n |->
                       points[i][1] * points[j][1]
                           + points[i][2] * points[j][2]]]
    IN  [i \in 1..n |-> [j \in 1..n |->
            p_dot_p[i][i] + p_dot_p[j][j] - 2 * p_dot_p[i][j]]]

\* lines 138-142: twice np.median(dsq_array[:, :n_cols])
threshold_dsq(dsq_array) ==
    LET n      == Len(dsq_array)
        n_cols == IF n \div 2 < 10 THEN n ELSE n \div 2
    IN  median2(Concat([i \in 1..n |-> SubSeq(dsq_array[i], 1, n_cols)]))

\* a scan that does not look whether i1 has been merged already
skips_i1_unless_merged(i0, i1, merged, dsq_array, threshold) ==
    \/ i1 = i0
    \/ 2 * dsq_array[i0][i1] > threshold

\* lines 153-160: the candidates i1 the scan of i0 passes over (threshold
\* is twice median_dsq)
skips_i1(i0, i1, merged, dsq_array, threshold) ==
    \/ i1 = i0
    \/ i1 \in merged
    \/ 2 * dsq_array[i0][i1] > threshold

\* lines 151-173: the first i1, in the order of its distance to i0, whose
\* merger with i0 evaluate_merger accepts (i1 = 0: there is none)
RECURSIVE first_merger(_, _, _, _, _)
first_merger(i0, sorted_i1, k, merged, scope) ==
    IF k > Len(sorted_i1) THEN [i1 |-> 0, hull |-> NoHull]
    ELSE LET i1 == sorted_i1[k]
         IN  IF skips_i1(i0, i1, merged, scope.dsq_array, scope.threshold)
             THEN first_merger(i0, sorted_i1, k + 1, merged, scope)
             ELSE LET new_hull == evaluate_merger(scope.hulls[i0],
                                                  scope.hulls[i1],
                                                  scope.test_pts,
                                                  scope.test_pt_validity)
                  IN  IF new_hull.none
                      THEN first_merger(i0, sorted_i1, k + 1, merged, scope)
                      ELSE [i1 |-> i1, hull |-> new_hull]

\* lines 144-173: the loop over idx_list, from its k-th entry on; found is
\* the dict mergers and the set been_merged so far
RECURSIVE scan_idx_list(_, _, _, _)
scan_idx_list(idx_list, k, found, scope) ==
    IF k > Len(idx_list) THEN found
    ELSE LET i0 == idx_list[k]
         IN  IF i0 \in found.been_merged
             THEN scan_idx_list(idx_list, k + 1, found, scope)
             ELSE LET m == first_merger(i0, argsort(scope.dsq_array[i0]), 1,
                                        found.been_merged, scope)
                  IN  IF m.i1 = 0
                      THEN scan_idx_list(idx_list, k + 1, found, scope)
                      ELSE scan_idx_list(idx_list, k + 1,
                               [mergers |->
                                    [i \in DOMAIN found.mergers \cup {i0} |->
                                        IF i = i0
                                        THEN [points   |-> m.hull.points,
                                              vertices |-> m.hull.vertices]
                                        ELSE found.mergers[i]],
                                been_merged |->
                                    found.been_merged \cup {i0, m.i1}],
                               scope)

\* lines 181-186: the list of the next pass
next_hull_list(hulls, found) ==
    Take([ii \in 1..Len(hulls) |->
              IF ii \in DOMAIN found.mergers THEN found.mergers[ii]
              ELSE hulls[ii]],
         {ii \in 1..Len(hulls) :
              ii \notin found.been_merged \/ ii \in DOMAIN found.mergers})

(***************************************************************************)
(* Specification SpecHulls: one call of merge_hulls                        *)
(***************************************************************************)
\* the leaf hulls: four squares in a row with gaps between them, and one
\* above the first
LeafSquare(x, y) ==
    ConvexHull(<<<<x, y>>, <<x + 2, y>>, <<x + 2, y + 2>>, <<x, y + 2>>>>)

LeafPlaces == <<<<0, 0>>, <<4, 0>>, <<8, 0>>, <<12, 0>>, <<0, 4>>>>

\* leaf_hull_lookup: the leaves 1..5 have a hull, the leaf 6 has none
HasLeafHull(leaf) == leaf \in 1..Len(LeafPlaces)

leaf_hull_lookup(leaf) == LeafSquare(LeafPlaces[leaf][1], LeafPlaces[leaf][2])

\* the test points of get_test_pts: one in every square and one in every
\* gap; those in the squares are valid, those in the gaps may not be
HullTestPts ==
    <<<<1, 1>>, <<5, 1>>, <<9, 1>>, <<13, 1>>, <<1, 5>>,
      <<3, 1>>, <<7, 1>>, <<11, 1>>, <<1, 3>>>>

GapTestPts == 6..9

\* how many leaves a taxon has at most
MaxLeafHulls == 4

RECURSIVE LeafLists(_)
LeafLists(n) ==
    IF n = 0 THEN {<<>>}
    ELSE LeafLists(n - 1) \cup
         {Append(l, leaf) : l \in {x \in LeafLists(n - 1) : Len(x) = n - 1},
                            leaf \in 1..(Len(LeafPlaces) + 1)}

LeafListInputs ==
    {l \in LeafLists(MaxLeafHulls) :
        /\ \A i, j \in 1..Len(l) : i # j => l[i] # l[j]
        /\ \E i \in 1..Len(l) : HasLeafHull(l[i])
        /\ \A i \in 1..Len(l) : ~HasLeafHull(l[i]) => i = Len(l)}

InvalidChoices == {{}, {6}, {7}, GapTestPts}

InitHulls ==
    /\ pc = "merge_hulls"
    /\ qh_start \in QhStarts
    /\ \E l \in LeafListInputs, bad \in InvalidChoices :
           g_in = [leaf_list        |-> l,
                   test_pts         |-> HullTestPts,
                   test_pt_validity |->
                       [k \in 1..Len(HullTestPts) |-> k \notin bad]]
    /\ g_out = <<>>
    /\ IdleHulls
    /\ bare_hull_list = <<>> /\ c_arg = <<>> /\ c_ret = <<>> /\ c_prev = <<>>
    /\ n_pass = 0
    /\ IdleMerge /\ IdlePts /\ IdleRender /\ IdleData /\ IdleObj

\* lines 112-130: the copies of the hulls of the leaves that have one
EnterMergeHulls ==
    /\ pc = "merge_hulls"
    /\ raw_hull_list' =
           LET leaves == SelectSeq(g_in.leaf_list, HasLeafHull)
           IN  [k \in 1..Len(leaves) |-> leaf_hull_lookup(leaves[k])]
    /\ final_pass' = FALSE
    /\ pc' = "keep_going"
    /\ UNCHANGED <<qh_start, g_in, g_out, median_dsq, hull_mergers,
                   been_merged, mergeVars, compoundVars, ptsVars, renderVars,
                   dataVars, objVars>>

\* lines 131-189: one pass of the while loop
MergeHullsPass ==
    /\ pc = "keep_going"
    /\ \E dsq_array \in {pairwise_distance_sq(
                             [k \in 1..Len(raw_hull_list) |->
                                 _get_hull_centroid(raw_hull_list[k])])} :
       \E threshold \in {IF final_pass THEN median_dsq
                         ELSE threshold_dsq(dsq_array)} :
       \E found \in {scan_idx_list(
                         argsort(dsq_array[1]), 1,
                         [mergers |-> <<>>, been_merged |-> {}],
                         [hulls            |-> raw_hull_list,
                          dsq_array        |-> dsq_array,
                          threshold        |-> threshold,
                          test_pts         |-> g_in.test_pts,
                          test_pt_validity |-> g_in.test_pt_validity])} :
       \E next_list \in {next_hull_list(raw_hull_list, found)} :
           /\ median_dsq' = threshold
           /\ hull_mergers' = found.mergers
           /\ been_merged' = found.been_merged
           /\ IF DOMAIN found.mergers = {} /\ final_pass
              THEN /\ g_out' = raw_hull_list
                   /\ pc' = "returned"
                   /\ UNCHANGED <<raw_hull_list, final_pass>>
              ELSE /\ final_pass' = (final_pass \/ DOMAIN found.mergers = {})
                   /\ raw_hull_list' = next_list
                   /\ IF Len(next_list) = 1
                      THEN g_out' = next_list /\ pc' = "returned"
                      ELSE g_out' = g_out /\ pc' = pc
    /\ n_pass' = n_pass + 1
    /\ UNCHANGED <<qh_start, g_in, bare_hull_list, c_arg, c_ret, c_prev,
                   mergeVars, ptsVars, renderVars, dataVars, objVars>>

NextHulls == EnterMergeHulls \/ MergeHullsPass

SpecHulls == InitHulls /\ [][NextHulls]_vars

\* the call is one thread that keeps running: it enters the loop, and the
\* loop makes its next pass while keep_going is true
CallGoesOn ==
    \/ pc = "merge_hulls" /\ pc' = "keep_going" /\ n_pass' = n_pass
    \/ /\ pc = "keep_going" /\ pc' \in {"keep_going", "returned"}
       /\ n_pass' = n_pass + 1

SpecHullsFair ==
    InitHulls /\ [][NextHulls]_vars /\ WF_<<pc, n_pass>>(CallGoesOn)

\* the leaf hulls the call starts from
LeafHullsGiven == SelectSeq(g_in.leaf_list, HasLeafHull)

\* the squared distances between the centroids of the working list
DsqOfList ==
    pairwise_distance_sq([k \in 1..Len(raw_hull_list) |->
                             _get_hull_centroid(raw_hull_list[k])])

\* i1 is a hull that the pass just made merged into i0
MergedInto(i0, i1) ==
    /\ i1 \in been_merged' \ DOMAIN hull_mergers'
    /\ hull_mergers'[i0].points =
           raw_hull_list[i0].points \o raw_hull_list[i1].points

\* every accepted merger joins two hulls of the list, no hull is in two of
\* them, and no merged pair is further apart than the median of the
\* squared distances of the list
MergersOfPass ==
    /\ DOMAIN hull_mergers' \subseteq been_merged'
    /\ been_merged' \subseteq 1..Len(raw_hull_list)
    /\ Cardinality(been_merged') = 2 * Cardinality(DOMAIN hull_mergers')
    /\ \A i0 \in DOMAIN hull_mergers' :
           \E i1 \in 1..Len(raw_hull_list) :
               /\ MergedInto(i0, i1)
               /\ 2 * DsqOfList[i0][i1] <= threshold_dsq(DsqOfList)
               /\ 2 * DsqOfList[i0][i1] <= median_dsq'
    /\ \A i0, j0 \in DOMAIN hull_mergers' :
       \A i1 \in 1..Len(raw_hull_list) :
           MergedInto(i0, i1) /\ MergedInto(j0, i1) => i0 = j0

\* the list of the next pass is shorter by the number of mergers, and the
\* call returns exactly when one hull remains or the pass was in final-pass
\* mode and accepted no merger
OutcomeOfPass ==
    /\ Len(raw_hull_list') =
           Len(raw_hull_list) - Cardinality(DOMAIN hull_mergers')
    /\ Len(raw_hull_list') <= Len(raw_hull_list)
    /\ pc' = "returned" <=>
           \/ Len(raw_hull_list') = 1
           \/ final_pass /\ DOMAIN hull_mergers' = {}
    /\ pc' = "returned" => g_out' = raw_hull_list'

\* C30: merge_hulls terminates for every non-empty list of leaf hulls and
\* returns a non-empty list no longer than its input; in each pass every
\* hull takes part in at most one accepted merger, no pair further apart
\* than the median threshold is merged, the number of hulls does not
\* increase, and the loop returns as soon as one hull remains or a pass in
\* final-pass mode accepts no merger
C30_MergeHullsTerminates ==
    /\ <>(pc = "returned")
    /\ [](pc = "returned" =>
              /\ Len(g_out) >= 1
              /\ Len(g_out) <= Len(LeafHullsGiven))
    /\ [][pc = "keep_going" => MergersOfPass /\ OutcomeOfPass]_vars

\* a pass over four hulls has accepted two mergers at once, and the loop
\* goes on with the two merged hulls
C30_Witness ==
    /\ pc = "keep_going"
    /\ Len(LeafHullsGiven) = 4
    /\ been_merged = {1, 2, 3, 4}
    /\ Cardinality(DOMAIN hull_mergers) = 2
    /\ Len(raw_hull_list) = 2

\* evaluate_merger has turned down every pair within the threshold: the
\* call returns as many hulls as it was given
AllMergersRejected ==
    /\ pc = "returned"
    /\ Len(g_out) = 3
    /\ Len(LeafHullsGiven) = 3

====
